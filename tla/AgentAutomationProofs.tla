------------------------ MODULE AgentAutomationProofs ------------------------
(* Proofs about what the panel publishes to an Agent without a person: the DNS that     *)
(* follows another Agent and the rules that reach a device. Each part has an inductive     *)
(* invariant, kept action by action; other instances of MCRouter leave its variables alone. *)
EXTENDS MCRouter, WellFoundedInduction, FiniteSetTheorems, TLAPS

-------------------------------------------------------------------------------
(* DNS that follows another Agent: what is remembered of a release of the source   *)
(* stays true as long as that release is its last, unreturned success, and while    *)
(* no publication of the target is open the panel knows what the target runs.       *)

Places == Addresses \cup {Follow!Any}
Upstreams == [addr : Places, other : Nat]
Keys == Nat \X Nat \X Nat
Answers == {"none", "running", "succeeded", "failed", "rolled_back", "rollback_failed"}
SourceRecords == [release : Nat, status : {"none", "running", "succeeded", "failed"}, undone : BOOLEAN,
                  live : Places, next : Places, last : Places]
ChildRecords == [id : Keys, status : {"preparing", "publishing"} \cup Follow!Terminal, sent : BOOLEAN, agent : Answers,
                 undone : BOOLEAN, content : Upstreams, before : Upstreams]
StateRecords == [status : {"none", "waiting"} \cup Follow!Running \cup Follow!Terminal, release : Nat, attempt : Nat,
                 retry : BOOLEAN, child : Keys]
Applications == [addr : Places, other : Nat, by : Keys]
RoundRecords == [pc : {"idle", "read", "endpoint", "compare", "reserve", "reserved", "job", "resume", "check", "finalize",
                       "sign", "done"},
                 release : Nat, seen : Upstreams, addr : Places, base : Applications]

FollowTyped ==
  /\ source \in SourceRecords
  /\ follow_draft \in Upstreams /\ device \in Upstreams
  /\ follow_applied \in Applications
  /\ child \in ChildRecords
  /\ binding \in [bound : BOOLEAN, id : Nat, after : Nat, signature : Places]
  /\ state \in StateRecords
  /\ follow_task \in [set : BOOLEAN, from : Upstreams, addr : Places]
  /\ round \in RoundRecords
  /\ upsets \in Nat

SourceOk == source.status = "succeeded" /\ ~source.undone
(* A release that is known is an ended one of the source, and an address taken from it while  *)
(* it was its last success is where the source listens as long as it is.                       *)
Ended(r) == r < source.release \/ r = 0 \/ (r = source.release /\ source.status = "succeeded")
ListensAt(r, addr) == Ended(r) /\ (r = source.release /\ SourceOk => addr = source.live)
AddressesAreTrue ==
  /\ source.status # "none" => source.release # 0
  /\ ListensAt(child.id[2], child.content.addr)
  /\ ListensAt(follow_applied.by[2], follow_applied.addr)
  /\ round.pc \in {"compare", "reserve"} => ListensAt(round.release, round.addr)
RoundIsOfTheState ==
  /\ state.status \in Follow!Running \/ round.pc # "idle" => state.child[2] = state.release /\ state.release # 0
  /\ round.pc # "idle" => state.status \in Follow!Running
  /\ round.pc \in {"read", "endpoint", "compare", "reserve"} => round.release = state.release /\ Ended(round.release)
OpenIsUnknown ==
  /\ IF Follow!Unfinished(child) /\ child.agent = "succeeded" THEN device = child.content
     ELSE device.other = follow_applied.other /\ (child.agent # "rollback_failed" => device.addr = follow_applied.addr)
  /\ child.agent \in {"running", "rollback_failed"} => Follow!Unfinished(child)
  /\ Follow!Unfinished(child) => child.before.addr = follow_applied.addr /\ child.before.other = follow_applied.other
  /\ child.agent # "none" => child.sent
  /\ Follow!Unfinished(child) => child.content.other = device.other
  /\ round.pc \in {"reserved", "job"} => Follow!Unfinished(child) /\ child.agent = "none"
  /\ round.pc \in {"check", "finalize", "sign", "done"} => ~Follow!Unfinished(child)
CleanIsPublished ==
  round.pc = "reserve" => round.base.other = round.seen.other

FollowInv == FollowTyped /\ AddressesAreTrue /\ RoundIsOfTheState /\ OpenIsUnknown /\ CleanIsPublished

LEMMA FollowConstantsTyped ==
  /\ Follow!Any \in Places /\ Follow!Plain \in Upstreams /\ Follow!None \in Keys /\ Follow!Manual \in Keys /\ Follow!Restored \in Keys
  /\ Follow!NoRound \in RoundRecords /\ Follow!NoChild \in ChildRecords /\ Follow!NoState \in StateRecords
  /\ Follow!NoTask \in [set : BOOLEAN, from : Upstreams, addr : Places]
<1>1. Follow!Any \in Places /\ Follow!None \in Keys /\ Follow!Manual \in Keys /\ Follow!Restored \in Keys
  BY DEF Places, Keys, Follow!None, Follow!Manual, Follow!Restored
<1>2. Follow!Plain \in Upstreams
  BY <1>1 DEF Upstreams, Follow!Plain
<1>3. [addr |-> Follow!Any, other |-> 0, by |-> Follow!Manual] \in Applications
  BY <1>1 DEF Applications
<1>4. Follow!NoRound \in RoundRecords
  BY <1>1, <1>2, <1>3 DEF RoundRecords, Follow!NoRound
<1>5. Follow!NoChild \in ChildRecords
  BY <1>1, <1>2 DEF ChildRecords, Follow!NoChild, Answers, Follow!Terminal
<1>6. Follow!NoState \in StateRecords
  BY <1>1 DEF StateRecords, Follow!NoState
<1>7. Follow!NoTask \in [set : BOOLEAN, from : Upstreams, addr : Places]
  BY <1>1, <1>2 DEF Follow!NoTask, Follow!Plain
<1> QED BY <1>1, <1>2, <1>4, <1>5, <1>6, <1>7

LEMMA FailedTyped ==
  ASSUME FollowTyped, Follow!Failed
  PROVE  /\ state' \in StateRecords /\ round' \in RoundRecords
         /\ round'.pc = "idle" /\ state'.status = "failed" /\ state'.child = state.child /\ state'.release = state.release
<1>1. state' \in StateRecords /\ state'.status = "failed" /\ state'.child = state.child /\ state'.release = state.release
  BY DEF FollowTyped, StateRecords, Follow!Failed, Follow!Terminal
<1>2. round' \in RoundRecords /\ round'.pc = "idle"
  BY FollowConstantsTyped DEF Follow!Failed, Follow!NoRound
<1> QED BY <1>1, <1>2

(* Every step keeps the types.                                                        *)

LEMMA SourcePublishesTyped == FollowTyped /\ Follow!SourcePublishes => FollowTyped'
<1> SUFFICES ASSUME FollowTyped, Follow!SourcePublishes PROVE FollowTyped'
  OBVIOUS
<1> USE FollowConstantsTyped DEF FollowTyped
<1>1. source' \in SourceRecords
  <2> PICK a \in Addresses : source' = [source EXCEPT !.release = @ + 1, !.status = "running", !.undone = FALSE, !.next = a]
    BY DEF Follow!SourcePublishes
  <2>1. a \in Places /\ source.release + 1 \in Nat
    BY DEF SourceRecords, Places
  <2>2. source' = [release |-> source.release + 1, status |-> "running", undone |-> FALSE, live |-> source.live, next |-> a,
                   last |-> source.last]
    BY DEF SourceRecords
  <2> QED BY <2>1, <2>2 DEF SourceRecords
<1>2. UNCHANGED <<follow_draft, device, follow_applied, child, binding, state, follow_task, round, upsets>>
  BY DEF Follow!SourcePublishes
<1> QED BY <1>1, <1>2

LEMMA SourceEndsTyped == FollowTyped /\ Follow!SourceEnds => FollowTyped'
<1> SUFFICES ASSUME FollowTyped, Follow!SourceEnds PROVE FollowTyped'
  OBVIOUS
<1> USE FollowConstantsTyped DEF FollowTyped
<1>1. source' \in SourceRecords
  BY DEF Follow!SourceEnds, SourceRecords, Places
<1>2. UNCHANGED <<follow_draft, device, follow_applied, child, binding, state, follow_task, round, upsets>>
  BY DEF Follow!SourceEnds
<1> QED BY <1>1, <1>2

LEMMA SourceRollbackTyped == FollowTyped /\ Follow!SourceRollback => FollowTyped'
<1> SUFFICES ASSUME FollowTyped, Follow!SourceRollback PROVE FollowTyped'
  OBVIOUS
<1> USE FollowConstantsTyped DEF FollowTyped
<1>1. source' \in SourceRecords
  BY DEF Follow!SourceRollback, SourceRecords, Places
<1>2. upsets' \in Nat
  BY DEF Follow!SourceRollback
<1>3. UNCHANGED <<follow_draft, device, follow_applied, child, binding, state, follow_task, round>>
  BY DEF Follow!SourceRollback
<1> QED BY <1>1, <1>2, <1>3

LEMMA EditDraftTyped == FollowTyped /\ Follow!EditDraft => FollowTyped'
<1> SUFFICES ASSUME FollowTyped, Follow!EditDraft PROVE FollowTyped'
  OBVIOUS
<1> USE FollowConstantsTyped DEF FollowTyped
<1>1. follow_draft' \in Upstreams
  BY DEF Follow!EditDraft, Upstreams, Places
<1>2. UNCHANGED <<source, device, follow_applied, child, binding, state, follow_task, round, upsets>>
  BY DEF Follow!EditDraft
<1> QED BY <1>1, <1>2

LEMMA TargetPublishesTyped == FollowTyped /\ Follow!TargetPublishes => FollowTyped'
<1> SUFFICES ASSUME FollowTyped, Follow!TargetPublishes PROVE FollowTyped'
  OBVIOUS
<1> USE FollowConstantsTyped DEF FollowTyped
<1>1. device' \in Upstreams
  BY DEF Follow!TargetPublishes, Upstreams, Places
<1>2. follow_applied' \in Applications
  BY DEF Follow!TargetPublishes, Applications, Upstreams
<1>3. child' \in ChildRecords
  BY DEF Follow!TargetPublishes, ChildRecords, Answers, Follow!Terminal, Follow!NoChild, Follow!None, Follow!Plain
<1>4. upsets' \in Nat
  BY DEF Follow!TargetPublishes
<1>5. UNCHANGED <<source, follow_draft, binding, state, follow_task, round>>
  BY DEF Follow!TargetPublishes
<1> QED BY <1>1, <1>2, <1>3, <1>4, <1>5

LEMMA TargetRollbackTyped == FollowTyped /\ Follow!TargetRollback => FollowTyped'
<1> SUFFICES ASSUME FollowTyped, Follow!TargetRollback PROVE FollowTyped'
  OBVIOUS
<1> USE FollowConstantsTyped DEF FollowTyped
<1>1. device' \in Upstreams
  BY DEF Follow!TargetRollback, Upstreams, Places, ChildRecords
<1>2. follow_applied' \in Applications
  <2>1. child.before \in Upstreams
    BY DEF ChildRecords
  <2>2. child.before.addr \in Places /\ child.before.other \in Nat
    BY <2>1 DEF Upstreams
  <2> QED BY <2>2 DEF Follow!TargetRollback, Applications
<1>3. child' \in ChildRecords
  BY DEF Follow!TargetRollback, ChildRecords, Answers, Follow!Terminal
<1>4. upsets' \in Nat
  BY DEF Follow!TargetRollback
<1>5. UNCHANGED <<source, follow_draft, binding, state, follow_task, round>>
  BY DEF Follow!TargetRollback
<1> QED BY <1>1, <1>2, <1>3, <1>4, <1>5

LEMMA ConfigureTyped == FollowTyped /\ Follow!Configure => FollowTyped'
<1> SUFFICES ASSUME FollowTyped, Follow!Configure PROVE FollowTyped'
  OBVIOUS
<1> USE FollowConstantsTyped DEF FollowTyped
<1>1. binding' \in [bound : BOOLEAN, id : Nat, after : Nat, signature : Places]
  BY DEF Follow!Configure, Upstreams, SourceRecords
<1>2. state' \in StateRecords
  BY DEF Follow!Configure, StateRecords, Follow!Terminal, Follow!Running, Keys, Follow!NoState
<1>3. follow_task' \in [set : BOOLEAN, from : Upstreams, addr : Places]
  BY DEF Follow!Configure, RoundRecords
<1>4. upsets' \in Nat
  BY DEF Follow!Configure
<1>5. UNCHANGED <<source, follow_draft, device, follow_applied, child, round>>
  BY DEF Follow!Configure
<1> QED BY <1>1, <1>2, <1>3, <1>4, <1>5

LEMMA DisableTyped == FollowTyped /\ Follow!Disable => FollowTyped'
<1> SUFFICES ASSUME FollowTyped, Follow!Disable PROVE FollowTyped'
  OBVIOUS
<1> USE FollowConstantsTyped DEF FollowTyped
<1>1. binding' \in [bound : BOOLEAN, id : Nat, after : Nat, signature : Places]
  BY DEF Follow!Disable, Upstreams, SourceRecords
<1>2. state' \in StateRecords
  BY DEF Follow!Disable, StateRecords, Follow!Terminal, Follow!Running, Keys
<1>3. follow_task' \in [set : BOOLEAN, from : Upstreams, addr : Places]
  BY DEF Follow!Disable, RoundRecords
<1>4. UNCHANGED <<source, follow_draft, device, follow_applied, child, round, upsets>>
  BY DEF Follow!Disable
<1> QED BY <1>1, <1>2, <1>3, <1>4

LEMMA RetryTyped == FollowTyped /\ Follow!Retry => FollowTyped'
<1> SUFFICES ASSUME FollowTyped, Follow!Retry PROVE FollowTyped'
  OBVIOUS
<1> USE FollowConstantsTyped DEF FollowTyped
<1>1. state' \in StateRecords
  <2>1. state' = [status |-> "waiting", release |-> state.release, attempt |-> state.attempt + 1, retry |-> TRUE,
                  child |-> Follow!None]
    BY DEF Follow!Retry, StateRecords
  <2>2. state.release \in Nat /\ state.attempt + 1 \in Nat
    BY DEF StateRecords
  <2> QED BY <2>1, <2>2 DEF StateRecords
<1>2. follow_task' \in [set : BOOLEAN, from : Upstreams, addr : Places]
  BY DEF Follow!Retry, RoundRecords
<1>3. upsets' \in Nat
  BY DEF Follow!Retry
<1>4. UNCHANGED <<source, follow_draft, device, follow_applied, child, binding, round>>
  BY DEF Follow!Retry
<1> QED BY <1>1, <1>2, <1>3, <1>4

LEMMA AgentEndsTyped == FollowTyped /\ Follow!AgentEnds => FollowTyped'
<1> SUFFICES ASSUME FollowTyped, Follow!AgentEnds PROVE FollowTyped'
  OBVIOUS
<1> USE FollowConstantsTyped DEF FollowTyped
<1>1. child' \in ChildRecords
  BY DEF Follow!AgentEnds, ChildRecords, Answers, Follow!Terminal
<1>2. device' \in Upstreams
  BY DEF Follow!AgentEnds, Upstreams, Places, ChildRecords
<1>3. UNCHANGED <<source, follow_draft, follow_applied, binding, state, follow_task, round, upsets>>
  BY DEF Follow!AgentEnds
<1> QED BY <1>1, <1>2, <1>3

LEMMA AgentRecoversTyped == FollowTyped /\ Follow!AgentRecovers => FollowTyped'
<1> SUFFICES ASSUME FollowTyped, Follow!AgentRecovers PROVE FollowTyped'
  OBVIOUS
<1> USE FollowConstantsTyped DEF FollowTyped
<1>1. child' \in ChildRecords
  BY DEF Follow!AgentRecovers, ChildRecords, Answers
<1>2. device' \in Upstreams
  BY DEF Follow!AgentRecovers, ChildRecords
<1>3. UNCHANGED <<source, follow_draft, follow_applied, binding, state, follow_task, round, upsets>>
  BY DEF Follow!AgentRecovers
<1> QED BY <1>1, <1>2, <1>3

LEMMA PollTyped == FollowTyped /\ Follow!Poll => FollowTyped'
<1> SUFFICES ASSUME FollowTyped, Follow!Poll PROVE FollowTyped'
  OBVIOUS
<1> USE FollowConstantsTyped DEF FollowTyped
<1>1. child' \in ChildRecords
  BY DEF Follow!Poll, ChildRecords, Answers, Follow!Terminal, Follow!Polled, Follow!Unfinished
<1>2. follow_applied' \in Applications
  BY DEF Follow!Poll, Applications, Upstreams, ChildRecords,Follow!Remembered, Follow!Polled, Follow!Unfinished
<1>3. UNCHANGED <<source, follow_draft, device, binding, state, follow_task, round, upsets>>
  BY DEF Follow!Poll
<1> QED BY <1>1, <1>2, <1>3

LEMMA TickTyped == FollowTyped /\ Follow!Tick => FollowTyped'
<1> SUFFICES ASSUME FollowTyped, Follow!Tick PROVE FollowTyped'
  OBVIOUS
<1> USE FollowConstantsTyped DEF FollowTyped
<1>1. state' \in StateRecords
  <2>1. CASE Follow!Follow
    <3> DEFINE attempt == IF state.release = source.release THEN state.attempt ELSE 0
    <3>1. /\ source.release \in Nat /\ state.attempt \in Nat /\ binding.id \in Nat
      BY DEF SourceRecords, StateRecords
    <3>2. attempt \in Nat /\ <<binding.id, source.release, attempt>> \in Keys
      BY <3>1 DEF Keys
    <3> HIDE DEF attempt
    <3>3. state' = [status |-> "preparing", release |-> source.release, attempt |-> attempt, retry |-> FALSE,
                    child |-> <<binding.id, source.release, attempt>>]
      BY <2>1 DEF Follow!Follow, Follow!ChildOf, attempt
    <3> QED BY <3>1, <3>2, <3>3 DEF StateRecords, Follow!Running
  <2>2. CASE UNCHANGED state
    BY <2>2
  <2> QED BY <2>1, <2>2 DEF Follow!Tick
<1>2. round' \in RoundRecords
  BY DEF Follow!Tick, Follow!Quiet, Follow!Follow, RoundRecords, Follow!NoRound, SourceRecords
<1>3. UNCHANGED <<source, follow_draft, device, follow_applied, child, binding, follow_task, upsets>>
  BY DEF Follow!Tick, Follow!Quiet, Follow!Follow
<1> QED BY <1>1, <1>2, <1>3

LEMMA ReadSnapshotTyped == FollowTyped /\ Follow!ReadSnapshot => FollowTyped'
<1> SUFFICES ASSUME FollowTyped, Follow!ReadSnapshot PROVE FollowTyped'
  OBVIOUS
<1> USE FollowConstantsTyped, FailedTyped DEF FollowTyped
<1>1. round' \in RoundRecords
  BY DEF Follow!ReadSnapshot, Follow!Quiet, RoundRecords
<1>2. state' \in StateRecords
  BY DEF Follow!ReadSnapshot, Follow!Quiet, StateRecords, Follow!Terminal, Follow!Running, Keys
<1>3. UNCHANGED <<source, follow_draft, device, follow_applied, child, binding, follow_task, upsets>>
  BY DEF Follow!ReadSnapshot, Follow!Quiet
<1> QED BY <1>1, <1>2, <1>3

LEMMA EndpointTyped == FollowTyped /\ Follow!Endpoint => FollowTyped'
<1> SUFFICES ASSUME FollowTyped, Follow!Endpoint PROVE FollowTyped'
  OBVIOUS
<1> USE FollowConstantsTyped, FailedTyped DEF FollowTyped
<1>1. round' \in RoundRecords
  BY DEF Follow!Endpoint, Follow!Quiet, RoundRecords, SourceRecords
<1>2. state' \in StateRecords
  BY DEF Follow!Endpoint, Follow!Quiet, StateRecords, Follow!Terminal, Follow!Running, Keys
<1>3. UNCHANGED <<source, follow_draft, device, follow_applied, child, binding, follow_task, upsets>>
  BY DEF Follow!Endpoint, Follow!Quiet
<1> QED BY <1>1, <1>2, <1>3

LEMMA CompareTyped == FollowTyped /\ Follow!Compare => FollowTyped'
<1> SUFFICES ASSUME FollowTyped, Follow!Compare PROVE FollowTyped'
  OBVIOUS
<1> USE FollowConstantsTyped, FailedTyped DEF FollowTyped
<1>1. round' \in RoundRecords
  BY DEF Follow!Compare, Follow!Quiet, RoundRecords
<1>2. state' \in StateRecords
  BY DEF Follow!Compare, Follow!Quiet, StateRecords, Follow!Terminal, Follow!Running, Keys, Follow!None
<1>3. UNCHANGED <<source, follow_draft, device, follow_applied, child, binding, follow_task, upsets>>
  BY DEF Follow!Compare, Follow!Quiet
<1> QED BY <1>1, <1>2, <1>3

LEMMA ReserveTyped == FollowTyped /\ Follow!Reserve => FollowTyped'
<1> SUFFICES ASSUME FollowTyped, Follow!Reserve PROVE FollowTyped'
  OBVIOUS
<1> USE FollowConstantsTyped, FailedTyped DEF FollowTyped
<1>1. child' \in ChildRecords
  <2>1. CASE UNCHANGED child
    BY <2>1
  <2>2. CASE child' = [Follow!NoChild EXCEPT !.id = state.child, !.status = "preparing", !.before = device,
                                             !.content = [round.seen EXCEPT !.addr = round.addr]]
    <3>1. state.child \in Keys /\ round.seen \in Upstreams /\ round.addr \in Places
      BY DEF StateRecords, RoundRecords
    <3>2. [round.seen EXCEPT !.addr = round.addr] \in Upstreams
      BY <3>1 DEF Upstreams
    <3>3. child' = [id |-> state.child, status |-> "preparing", sent |-> FALSE, agent |-> "none", undone |-> FALSE,
                    content |-> [round.seen EXCEPT !.addr = round.addr], before |-> device]
      BY <2>2 DEF Follow!NoChild
    <3> QED BY <3>1, <3>2, <3>3 DEF ChildRecords, Answers
  <2> QED BY <2>1, <2>2 DEF Follow!Reserve
<1>2. round' \in RoundRecords
  BY DEF Follow!Reserve, Follow!Quiet, RoundRecords
<1>3. state' \in StateRecords
  BY DEF Follow!Reserve, Follow!Quiet, StateRecords, Follow!Terminal, Follow!Running, Keys
<1>4. UNCHANGED <<source, follow_draft, device, follow_applied, binding, follow_task, upsets>>
  BY DEF Follow!Reserve, Follow!Quiet
<1> QED BY <1>1, <1>2, <1>3, <1>4

LEMMA SetJobTyped == FollowTyped /\ Follow!SetJob => FollowTyped'
<1> SUFFICES ASSUME FollowTyped, Follow!SetJob PROVE FollowTyped'
  OBVIOUS
<1> USE FollowConstantsTyped DEF FollowTyped
<1>1. follow_task' \in [set : BOOLEAN, from : Upstreams, addr : Places]
  BY DEF Follow!SetJob, Follow!Quiet, RoundRecords
<1>2. state' \in StateRecords
  BY DEF Follow!SetJob, Follow!Quiet, StateRecords, Follow!Terminal, Follow!Running, Keys
<1>3. round' \in RoundRecords
  BY DEF Follow!SetJob, Follow!Quiet, RoundRecords
<1>4. UNCHANGED <<source, follow_draft, device, follow_applied, child, binding, upsets>>
  BY DEF Follow!SetJob, Follow!Quiet
<1> QED BY <1>1, <1>2, <1>3, <1>4

LEMMA PublishTyped == FollowTyped /\ Follow!Publish => FollowTyped'
<1> SUFFICES ASSUME FollowTyped, Follow!Publish PROVE FollowTyped'
  OBVIOUS
<1> USE FollowConstantsTyped DEF FollowTyped
<1>1. child' \in ChildRecords
  BY DEF Follow!Publish, Follow!Quiet, ChildRecords, Answers, Follow!Terminal
<1>2. round' \in RoundRecords
  BY DEF Follow!Publish, Follow!Quiet, RoundRecords, Follow!NoRound
<1>3. UNCHANGED <<source, follow_draft, device, follow_applied, binding, state, follow_task, upsets>>
  BY DEF Follow!Publish, Follow!Quiet
<1> QED BY <1>1, <1>2, <1>3

LEMMA ResumeTyped == FollowTyped /\ Follow!Resume => FollowTyped'
<1> SUFFICES ASSUME FollowTyped, Follow!Resume PROVE FollowTyped'
  OBVIOUS
<1> USE FollowConstantsTyped, FailedTyped DEF FollowTyped
<1>1. child' \in ChildRecords
  BY DEF Follow!Resume, Follow!Quiet, ChildRecords, Answers, Follow!Terminal, Follow!Polled, Follow!Unfinished
<1>2. follow_applied' \in Applications
  BY DEF Follow!Resume, Follow!Quiet, Applications, Upstreams, ChildRecords,Follow!Remembered, Follow!Polled, Follow!Unfinished
<1>3. round' \in RoundRecords
  BY DEF Follow!Resume, Follow!Quiet, RoundRecords
<1>4. state' \in StateRecords
  BY DEF Follow!Resume, Follow!Quiet, StateRecords, Follow!Terminal, Follow!Running, Keys
<1>5. UNCHANGED <<source, follow_draft, device, binding, follow_task, upsets>>
  BY DEF Follow!Resume, Follow!Quiet
<1> QED BY <1>1, <1>2, <1>3, <1>4, <1>5

LEMMA FinalCheckTyped == FollowTyped /\ Follow!FinalCheck => FollowTyped'
<1> SUFFICES ASSUME FollowTyped, Follow!FinalCheck PROVE FollowTyped'
  OBVIOUS
<1> USE FollowConstantsTyped, FailedTyped DEF FollowTyped
<1>1. round' \in RoundRecords
  BY DEF Follow!FinalCheck, Follow!Quiet, RoundRecords
<1>2. state' \in StateRecords
  BY DEF Follow!FinalCheck, Follow!Quiet, StateRecords, Follow!Terminal, Follow!Running, Keys
<1>3. UNCHANGED <<source, follow_draft, device, follow_applied, child, binding, follow_task, upsets>>
  BY DEF Follow!FinalCheck, Follow!Quiet
<1> QED BY <1>1, <1>2, <1>3

LEMMA FinalizeTyped == FollowTyped /\ Follow!Finalize => FollowTyped'
<1> SUFFICES ASSUME FollowTyped, Follow!Finalize PROVE FollowTyped'
  OBVIOUS
<1> USE FollowConstantsTyped DEF FollowTyped
<1>1. follow_draft' \in Upstreams
  BY DEF Follow!Finalize, Upstreams, Places, Follow!Candidate
<1>2. round' \in RoundRecords
  BY DEF Follow!Finalize, RoundRecords
<1>3. UNCHANGED <<source, device, follow_applied, child, binding, state, follow_task, upsets>>
  BY DEF Follow!Finalize
<1> QED BY <1>1, <1>2, <1>3

LEMMA SignTyped == FollowTyped /\ Follow!Sign => FollowTyped'
<1> SUFFICES ASSUME FollowTyped, Follow!Sign PROVE FollowTyped'
  OBVIOUS
<1> USE FollowConstantsTyped DEF FollowTyped
<1>1. binding' \in [bound : BOOLEAN, id : Nat, after : Nat, signature : Places]
  BY DEF Follow!Sign, Upstreams, SourceRecords
<1>2. round' \in RoundRecords
  BY DEF Follow!Sign, RoundRecords
<1>3. UNCHANGED <<source, follow_draft, device, follow_applied, child, state, follow_task, upsets>>
  BY DEF Follow!Sign
<1> QED BY <1>1, <1>2, <1>3

LEMMA SucceedTyped == FollowTyped /\ Follow!Succeed => FollowTyped'
<1> SUFFICES ASSUME FollowTyped, Follow!Succeed PROVE FollowTyped'
  OBVIOUS
<1> USE FollowConstantsTyped DEF FollowTyped
<1>1. state' \in StateRecords
  BY DEF Follow!Succeed, Follow!Quiet, StateRecords, Follow!Terminal, Follow!Running, Keys
<1>2. round' \in RoundRecords
  BY DEF Follow!Succeed, Follow!Quiet, RoundRecords
<1>3. UNCHANGED <<source, follow_draft, device, follow_applied, child, binding, follow_task, upsets>>
  BY DEF Follow!Succeed, Follow!Quiet
<1> QED BY <1>1, <1>2, <1>3

LEMMA CrashTyped == FollowTyped /\ Follow!Crash => FollowTyped'
<1> SUFFICES ASSUME FollowTyped, Follow!Crash PROVE FollowTyped'
  OBVIOUS
<1> USE FollowConstantsTyped DEF FollowTyped
<1>1. round' \in RoundRecords
  BY DEF Follow!Crash, RoundRecords
<1>2. upsets' \in Nat
  BY DEF Follow!Crash
<1>3. UNCHANGED <<source, follow_draft, device, follow_applied, child, binding, state, follow_task>>
  BY DEF Follow!Crash
<1> QED BY <1>1, <1>2, <1>3

LEMMA FailedKeeps ==
  ASSUME FollowInv, FollowTyped', Follow!Failed, UNCHANGED <<source, follow_applied, child, device>>
  PROVE  FollowInv'
<1>1. /\ round'.pc = "idle" /\ state'.status = "failed" /\ state'.child = state.child /\ state'.release = state.release
  BY FailedTyped DEF FollowInv
<1>2. AddressesAreTrue'
  BY <1>1 DEF FollowInv, AddressesAreTrue, ListensAt, Ended, SourceOk
<1>3. RoundIsOfTheState'
  BY <1>1 DEF FollowInv, RoundIsOfTheState, Follow!Running
<1>4. OpenIsUnknown' /\ CleanIsPublished'
  BY <1>1 DEF FollowInv, OpenIsUnknown, CleanIsPublished, Follow!Unfinished
<1> QED BY <1>2, <1>3, <1>4 DEF FollowInv

(* Reading the record of the target's deployment: what the panel then knows is what runs, unless *)
(* the publication is still open.                                                                 *)
LEMMA DeploymentIsRead ==
  ASSUME FollowInv, UNCHANGED <<source, device>>,
         \/ child' = Follow!Polled /\ follow_applied' = Follow!Remembered(Follow!Polled)
         \/ child' = child /\ follow_applied' = follow_applied
         \/ child' = [child EXCEPT !.status = "failed"] /\ ~child.sent /\ follow_applied' = follow_applied
  PROVE  /\ Follow!Unfinished(child') => Follow!Unfinished(child)
         /\ Follow!Unfinished(child) /\ round.pc \in {"reserved", "job"} /\ child.agent = "none" /\ child' = Follow!Polled => child' = child
         /\ child'.agent = child.agent /\ child'.sent = child.sent /\ child'.content = child.content /\ child'.id = child.id
         /\ child'.before = child.before
         /\ child'.agent \in {"running", "rollback_failed"} => Follow!Unfinished(child')
         /\ Follow!Unfinished(child') => follow_applied' = follow_applied
         /\ IF Follow!Unfinished(child') /\ child'.agent = "succeeded" THEN device = child'.content
            ELSE /\ device.other = follow_applied'.other
                 /\ child'.agent # "rollback_failed" => device.addr = follow_applied'.addr
         /\ ListensAt(follow_applied'.by[2], follow_applied'.addr)
<1>0. /\ child \in ChildRecords
      /\ IF Follow!Unfinished(child) /\ child.agent = "succeeded" THEN device = child.content
         ELSE device.other = follow_applied.other /\ (child.agent # "rollback_failed" => device.addr = follow_applied.addr)
      /\ child.agent \in {"running", "rollback_failed"} => Follow!Unfinished(child)
      /\ child.agent # "none" => child.sent
      /\ ListensAt(child.id[2], child.content.addr)
      /\ ListensAt(follow_applied.by[2], follow_applied.addr)
  BY DEF FollowInv, FollowTyped, OpenIsUnknown, AddressesAreTrue
<1>1. CASE child' = child /\ follow_applied' = follow_applied
  BY <1>0, <1>1 DEF Follow!Unfinished
<1>2. CASE child' = [child EXCEPT !.status = "failed"] /\ ~child.sent /\ follow_applied' = follow_applied
  BY <1>0, <1>2 DEF Follow!Unfinished, Follow!Terminal, ChildRecords, Follow!Polled
<1>3. CASE child' = Follow!Polled /\ follow_applied' = Follow!Remembered(Follow!Polled)
  <2>1. CASE Follow!Polled = child
    <3>1. follow_applied' = follow_applied
      BY <1>3, <2>1 DEF Follow!Remembered, Follow!Unfinished, Follow!Terminal
    <3> QED BY <1>1, <1>3, <2>1, <3>1
  <2>2. CASE /\ Follow!Unfinished(child) /\ child.agent \in Follow!Terminal
             /\ Follow!Polled = [child EXCEPT !.status = child.agent]
    <3>1. /\ child'.status = child.agent /\ child'.agent = child.agent /\ child'.sent = child.sent
          /\ child'.content = child.content /\ child'.id = child.id /\ child'.before = child.before
      BY <1>0, <1>3, <2>2 DEF ChildRecords
    <3>2. ~Follow!Unfinished(child')
      BY <2>2, <3>1 DEF Follow!Unfinished
    <3>3. CASE child.agent = "succeeded"
      <4>1. follow_applied' = [addr |-> child.content.addr, other |-> child.content.other, by |-> child.id]
        BY <1>3, <2>2, <3>1, <3>3 DEF Follow!Remembered
      <4> QED BY <1>0, <2>2, <3>1, <3>2, <3>3, <4>1 DEF Follow!Terminal
    <3>4. CASE child.agent # "succeeded"
      <4>1. follow_applied' = follow_applied
        BY <1>3, <3>1, <3>4 DEF Follow!Remembered
      <4> QED BY <1>0, <2>2, <3>1, <3>2, <3>4, <4>1 DEF Follow!Terminal
    <3> QED BY <3>3, <3>4
  <2>3. CASE /\ Follow!Unfinished(child) /\ child.agent \notin Follow!Terminal /\ ~child.sent /\ round.pc \notin {"reserved", "job"}
             /\ Follow!Polled = [child EXCEPT !.status = "failed"]
    <3>1. follow_applied' = follow_applied
      BY <1>0, <1>3, <2>3 DEF Follow!Remembered, ChildRecords
    <3>2. child' = [child EXCEPT !.status = "failed"]
      BY <1>3, <2>3
    <3> QED BY <1>0, <2>3, <3>1, <3>2 DEF Follow!Unfinished, Follow!Terminal, ChildRecords
  <2> QED BY <2>1, <2>2, <2>3 DEF Follow!Polled
<1> QED BY <1>1, <1>2, <1>3

LEMMA SourcePublishesKeeps == FollowInv /\ Follow!SourcePublishes => FollowInv'
<1> SUFFICES ASSUME FollowInv, Follow!SourcePublishes PROVE FollowInv'
  OBVIOUS
<1>1. FollowTyped'
  BY SourcePublishesTyped DEF FollowInv
<1> USE DEF FollowInv, FollowTyped, SourceRecords, ChildRecords, StateRecords, Applications, RoundRecords, Upstreams, Places,
            Keys, Answers, Follow!Terminal, Follow!Running, Follow!Unfinished, Follow!SourcePublishes
<1>2. AddressesAreTrue'
  BY DEF AddressesAreTrue, ListensAt, Ended, SourceOk, RoundIsOfTheState, OpenIsUnknown
<1>3. RoundIsOfTheState'
  BY DEF RoundIsOfTheState, Ended, AddressesAreTrue
<1>4. OpenIsUnknown' /\ CleanIsPublished'
  BY DEF OpenIsUnknown, CleanIsPublished, RoundIsOfTheState
<1> QED BY <1>1, <1>2, <1>3, <1>4

LEMMA SourceEndsKeeps == FollowInv /\ Follow!SourceEnds => FollowInv'
<1> SUFFICES ASSUME FollowInv, Follow!SourceEnds PROVE FollowInv'
  OBVIOUS
<1>1. FollowTyped'
  BY SourceEndsTyped DEF FollowInv
<1> USE DEF FollowInv, FollowTyped, SourceRecords, ChildRecords, StateRecords, Applications, RoundRecords, Upstreams, Places,
            Keys, Answers, Follow!Terminal, Follow!Running, Follow!Unfinished, Follow!SourceEnds
<1>2. AddressesAreTrue'
  <2>1. source'.release = source.release /\ source'.undone = source.undone
    BY DEF Follow!SourceEnds
  <2>2. source.status = "running" /\ source'.status \in {"succeeded", "failed"}
    BY DEF Follow!SourceEnds
  <2>3. UNCHANGED <<child, follow_applied, round>>
    BY DEF Follow!SourceEnds
  <2>4. source.release # 0
    BY <2>2 DEF AddressesAreTrue
  <2>5. ASSUME NEW r, NEW addr, ListensAt(r, addr) PROVE Ended(r)' /\ r # source.release
    BY <2>1, <2>2, <2>4, <2>5 DEF ListensAt, Ended
  <2> QED BY <2>1, <2>2, <2>3, <2>4, <2>5 DEF AddressesAreTrue, ListensAt, SourceOk, Ended
<1>3. RoundIsOfTheState'
  BY DEF RoundIsOfTheState, Ended, AddressesAreTrue
<1>4. OpenIsUnknown' /\ CleanIsPublished'
  BY DEF OpenIsUnknown, CleanIsPublished, RoundIsOfTheState
<1> QED BY <1>1, <1>2, <1>3, <1>4

LEMMA SourceRollbackKeeps == FollowInv /\ Follow!SourceRollback => FollowInv'
<1> SUFFICES ASSUME FollowInv, Follow!SourceRollback PROVE FollowInv'
  OBVIOUS
<1>1. FollowTyped'
  BY SourceRollbackTyped DEF FollowInv
<1> USE DEF FollowInv, FollowTyped, SourceRecords, ChildRecords, StateRecords, Applications, RoundRecords, Upstreams, Places,
            Keys, Answers, Follow!Terminal, Follow!Running, Follow!Unfinished, Follow!SourceRollback
<1>2. AddressesAreTrue'
  BY DEF AddressesAreTrue, ListensAt, Ended, SourceOk, RoundIsOfTheState, OpenIsUnknown
<1>3. RoundIsOfTheState'
  BY DEF RoundIsOfTheState, Ended, AddressesAreTrue
<1>4. OpenIsUnknown' /\ CleanIsPublished'
  BY DEF OpenIsUnknown, CleanIsPublished, RoundIsOfTheState
<1> QED BY <1>1, <1>2, <1>3, <1>4

LEMMA EditDraftKeeps == FollowInv /\ Follow!EditDraft => FollowInv'
<1> SUFFICES ASSUME FollowInv, Follow!EditDraft PROVE FollowInv'
  OBVIOUS
<1>1. FollowTyped'
  BY EditDraftTyped DEF FollowInv
<1> USE DEF FollowInv, FollowTyped, SourceRecords, ChildRecords, StateRecords, Applications, RoundRecords, Upstreams, Places,
            Keys, Answers, Follow!Terminal, Follow!Running, Follow!Unfinished, Follow!EditDraft
<1>2. AddressesAreTrue'
  BY DEF AddressesAreTrue, ListensAt, Ended, SourceOk, RoundIsOfTheState, OpenIsUnknown
<1>3. RoundIsOfTheState'
  BY DEF RoundIsOfTheState, Ended, AddressesAreTrue
<1>4. OpenIsUnknown' /\ CleanIsPublished'
  BY DEF OpenIsUnknown, CleanIsPublished, RoundIsOfTheState
<1> QED BY <1>1, <1>2, <1>3, <1>4

LEMMA TargetPublishesKeeps == FollowInv /\ Follow!TargetPublishes => FollowInv'
<1> SUFFICES ASSUME FollowInv, Follow!TargetPublishes PROVE FollowInv'
  OBVIOUS
<1>1. FollowTyped'
  BY TargetPublishesTyped DEF FollowInv
<1> USE DEF FollowInv, FollowTyped, SourceRecords, ChildRecords, StateRecords, Applications, RoundRecords, Upstreams, Places,
            Keys, Answers, Follow!Terminal, Follow!Running, Follow!Unfinished, Follow!TargetPublishes, Follow!Unfinished, Follow!NoChild, Follow!Manual, Follow!Plain, Follow!None
<1>2. AddressesAreTrue'
  BY DEF AddressesAreTrue, ListensAt, Ended, SourceOk, RoundIsOfTheState, OpenIsUnknown
<1>3. RoundIsOfTheState'
  BY DEF RoundIsOfTheState, Ended, AddressesAreTrue
<1>4. OpenIsUnknown' /\ CleanIsPublished'
  BY DEF OpenIsUnknown, CleanIsPublished, RoundIsOfTheState
<1> QED BY <1>1, <1>2, <1>3, <1>4

LEMMA TargetRollbackKeeps == FollowInv /\ Follow!TargetRollback => FollowInv'
<1> SUFFICES ASSUME FollowInv, Follow!TargetRollback PROVE FollowInv'
  OBVIOUS
<1>1. FollowTyped'
  BY TargetRollbackTyped DEF FollowInv
<1> USE DEF FollowInv, FollowTyped, SourceRecords, ChildRecords, StateRecords, Applications, RoundRecords, Upstreams, Places,
            Keys, Answers, Follow!Terminal, Follow!Running, Follow!Unfinished, Follow!TargetRollback, Follow!Restored, Follow!Manual, Follow!None
<1>2. AddressesAreTrue'
  BY DEF AddressesAreTrue, ListensAt, Ended, SourceOk, RoundIsOfTheState, OpenIsUnknown
<1>3. RoundIsOfTheState'
  BY DEF RoundIsOfTheState, Ended, AddressesAreTrue
<1>4. OpenIsUnknown' /\ CleanIsPublished'
  BY DEF OpenIsUnknown, CleanIsPublished, RoundIsOfTheState
<1> QED BY <1>1, <1>2, <1>3, <1>4

LEMMA ConfigureKeeps == FollowInv /\ Follow!Configure => FollowInv'
<1> SUFFICES ASSUME FollowInv, Follow!Configure PROVE FollowInv'
  OBVIOUS
<1>1. FollowTyped'
  BY ConfigureTyped DEF FollowInv
<1> USE DEF FollowInv, FollowTyped, SourceRecords, ChildRecords, StateRecords, Applications, RoundRecords, Upstreams, Places,
            Keys, Answers, Follow!Terminal, Follow!Running, Follow!Unfinished, Follow!Configure, Follow!Mutable, Follow!NoState, Follow!NoTask, Follow!None, Follow!Plain
<1>2. AddressesAreTrue'
  BY DEF AddressesAreTrue, ListensAt, Ended, SourceOk, RoundIsOfTheState, OpenIsUnknown
<1>3. RoundIsOfTheState'
  BY DEF RoundIsOfTheState, Ended, AddressesAreTrue
<1>4. OpenIsUnknown' /\ CleanIsPublished'
  BY DEF OpenIsUnknown, CleanIsPublished, RoundIsOfTheState
<1> QED BY <1>1, <1>2, <1>3, <1>4

LEMMA DisableKeeps == FollowInv /\ Follow!Disable => FollowInv'
<1> SUFFICES ASSUME FollowInv, Follow!Disable PROVE FollowInv'
  OBVIOUS
<1>1. FollowTyped'
  BY DisableTyped DEF FollowInv
<1> USE DEF FollowInv, FollowTyped, SourceRecords, ChildRecords, StateRecords, Applications, RoundRecords, Upstreams, Places,
            Keys, Answers, Follow!Terminal, Follow!Running, Follow!Unfinished, Follow!Disable, Follow!Mutable, Follow!NoState, Follow!NoTask, Follow!None, Follow!Plain
<1>2. AddressesAreTrue'
  BY DEF AddressesAreTrue, ListensAt, Ended, SourceOk, RoundIsOfTheState, OpenIsUnknown
<1>3. RoundIsOfTheState'
  BY DEF RoundIsOfTheState, Ended, AddressesAreTrue
<1>4. OpenIsUnknown' /\ CleanIsPublished'
  BY DEF OpenIsUnknown, CleanIsPublished, RoundIsOfTheState
<1> QED BY <1>1, <1>2, <1>3, <1>4

LEMMA RetryKeeps == FollowInv /\ Follow!Retry => FollowInv'
<1> SUFFICES ASSUME FollowInv, Follow!Retry PROVE FollowInv'
  OBVIOUS
<1>1. FollowTyped'
  BY RetryTyped DEF FollowInv
<1> USE DEF FollowInv, FollowTyped, SourceRecords, ChildRecords, StateRecords, Applications, RoundRecords, Upstreams, Places,
            Keys, Answers, Follow!Terminal, Follow!Running, Follow!Unfinished, Follow!Retry, Follow!Mutable, Follow!NoTask, Follow!None, Follow!Plain
<1>2. AddressesAreTrue'
  BY DEF AddressesAreTrue, ListensAt, Ended, SourceOk, RoundIsOfTheState, OpenIsUnknown
<1>3. RoundIsOfTheState'
  BY DEF RoundIsOfTheState, Ended, AddressesAreTrue
<1>4. OpenIsUnknown' /\ CleanIsPublished'
  BY DEF OpenIsUnknown, CleanIsPublished, RoundIsOfTheState
<1> QED BY <1>1, <1>2, <1>3, <1>4

LEMMA AgentEndsKeeps == FollowInv /\ Follow!AgentEnds => FollowInv'
<1> SUFFICES ASSUME FollowInv, Follow!AgentEnds PROVE FollowInv'
  OBVIOUS
<1>1. FollowTyped'
  BY AgentEndsTyped DEF FollowInv
<1> USE DEF FollowInv, FollowTyped, SourceRecords, ChildRecords, StateRecords, Applications, RoundRecords, Upstreams, Places,
            Keys, Answers, Follow!Terminal, Follow!Running, Follow!Unfinished, Follow!AgentEnds
<1>2. AddressesAreTrue'
  BY DEF AddressesAreTrue, ListensAt, Ended, SourceOk, RoundIsOfTheState, OpenIsUnknown
<1>3. RoundIsOfTheState'
  BY DEF RoundIsOfTheState, Ended, AddressesAreTrue
<1>4. OpenIsUnknown' /\ CleanIsPublished'
  BY DEF OpenIsUnknown, CleanIsPublished, RoundIsOfTheState
<1> QED BY <1>1, <1>2, <1>3, <1>4

LEMMA AgentRecoversKeeps == FollowInv /\ Follow!AgentRecovers => FollowInv'
<1> SUFFICES ASSUME FollowInv, Follow!AgentRecovers PROVE FollowInv'
  OBVIOUS
<1>0. UNCHANGED <<source, follow_applied, state, round>> /\ child.agent = "rollback_failed" /\ device' = child.before
  BY DEF Follow!AgentRecovers
<1>1. /\ child'.agent = "rolled_back" /\ child'.status = child.status /\ child'.id = child.id /\ child'.sent = child.sent
      /\ child'.content = child.content /\ child'.before = child.before
  BY DEF FollowInv, FollowTyped, ChildRecords, Follow!AgentRecovers
<1>2. Follow!Unfinished(child) /\ Follow!Unfinished(child')
  BY <1>0, <1>1 DEF FollowInv, OpenIsUnknown, Follow!Unfinished
<1>3. AddressesAreTrue'
  BY <1>0, <1>1 DEF FollowInv, AddressesAreTrue, ListensAt, Ended, SourceOk
<1>4. RoundIsOfTheState' /\ CleanIsPublished'
  BY <1>0 DEF FollowInv, RoundIsOfTheState, Ended, CleanIsPublished
<1>5. OpenIsUnknown'
  BY <1>0, <1>1, <1>2 DEF FollowInv, OpenIsUnknown
<1> QED BY <1>3, <1>4, <1>5, AgentRecoversTyped DEF FollowInv

LEMMA PollKeeps == FollowInv /\ Follow!Poll => FollowInv'
<1> SUFFICES ASSUME FollowInv, Follow!Poll PROVE FollowInv'
  OBVIOUS
<1>0. UNCHANGED <<source, device, state, round>> /\ Follow!Unfinished(child)
  BY DEF Follow!Poll
<1>1. child' = Follow!Polled /\ follow_applied' = Follow!Remembered(Follow!Polled)
  BY DEF Follow!Poll
<1>2. AddressesAreTrue'
  <2>1. ListensAt(child'.id[2], child'.content.addr) /\ ListensAt(follow_applied'.by[2], follow_applied'.addr)
    BY <1>0, <1>1, DeploymentIsRead DEF FollowInv, AddressesAreTrue
  <2> QED BY <1>0, <2>1 DEF FollowInv, AddressesAreTrue, ListensAt, Ended, SourceOk
<1>3. RoundIsOfTheState'
  BY <1>0 DEF FollowInv, RoundIsOfTheState, Ended
<1>4. OpenIsUnknown'
  BY <1>0, <1>1, DeploymentIsRead DEF FollowInv, OpenIsUnknown
<1>5. CleanIsPublished'
  BY <1>0 DEF FollowInv, CleanIsPublished
<1> QED BY <1>2, <1>3, <1>4, <1>5, PollTyped DEF FollowInv

LEMMA TickKeeps == FollowInv /\ Follow!Tick => FollowInv'
<1> SUFFICES ASSUME FollowInv, Follow!Tick PROVE FollowInv'
  OBVIOUS
<1>0. UNCHANGED <<source, follow_applied, child, device>> /\ round.pc = "idle"
  BY DEF Follow!Tick, Follow!Quiet
<1>1. CASE Follow!Follow
  <2>1. /\ round'.pc = "read" /\ round'.release = source.release
        /\ state'.status = "preparing" /\ state'.release = source.release /\ state'.child[2] = source.release
    BY <1>1 DEF Follow!Follow, Follow!NoRound, Follow!ChildOf
  <2>2. source.status = "succeeded" /\ source.release # 0
    BY <1>1 DEF Follow!Follow, FollowInv, AddressesAreTrue
  <2>3. AddressesAreTrue'
    BY <1>0, <2>1 DEF FollowInv, AddressesAreTrue, ListensAt, Ended, SourceOk
  <2>4. RoundIsOfTheState'
    BY <1>0, <2>1, <2>2 DEF RoundIsOfTheState, Ended, Follow!Running
  <2>5. OpenIsUnknown' /\ CleanIsPublished'
    BY <1>0, <2>1 DEF FollowInv, OpenIsUnknown, CleanIsPublished, Follow!Unfinished
  <2> QED BY <2>3, <2>4, <2>5, TickTyped DEF FollowInv
<1>2. CASE state.status \in Follow!Running /\ round' = [Follow!NoRound EXCEPT !.pc = "resume"] /\ UNCHANGED state
  <2>1. round'.pc = "resume"
    BY <1>2 DEF Follow!NoRound
  <2>3. AddressesAreTrue'
    BY <1>0, <2>1 DEF FollowInv, AddressesAreTrue, ListensAt, Ended, SourceOk
  <2>4. RoundIsOfTheState'
    BY <1>0, <1>2, <2>1 DEF FollowInv, RoundIsOfTheState, Ended
  <2>5. OpenIsUnknown' /\ CleanIsPublished'
    BY <1>0, <2>1 DEF FollowInv, OpenIsUnknown, CleanIsPublished, Follow!Unfinished
  <2> QED BY <2>3, <2>4, <2>5, TickTyped DEF FollowInv
<1> QED BY <1>1, <1>2 DEF Follow!Tick

LEMMA ReadSnapshotKeeps == FollowInv /\ Follow!ReadSnapshot => FollowInv'
<1> SUFFICES ASSUME FollowInv, Follow!ReadSnapshot PROVE FollowInv'
  OBVIOUS
<1>0. UNCHANGED <<source, follow_applied, child, device>>
  BY DEF Follow!ReadSnapshot, Follow!Quiet
<1>1. CASE Follow!Failed
  BY <1>0, <1>1, FailedKeeps, ReadSnapshotTyped DEF FollowInv
<1>2. CASE round' = [round EXCEPT !.pc = "endpoint", !.seen = follow_draft] /\ UNCHANGED state
  <2>1. round'.pc = "endpoint" /\ round'.release = round.release /\ round.pc = "read"
    BY <1>2 DEF FollowInv, FollowTyped, RoundRecords, Follow!ReadSnapshot
  <2>2. AddressesAreTrue'
    BY <1>0, <2>1 DEF FollowInv, AddressesAreTrue, ListensAt, Ended, SourceOk
  <2>3. RoundIsOfTheState'
    BY <1>0, <1>2, <2>1 DEF FollowInv, RoundIsOfTheState, Ended
  <2>4. OpenIsUnknown' /\ CleanIsPublished'
    BY <1>0, <2>1 DEF FollowInv, OpenIsUnknown, CleanIsPublished, Follow!Unfinished
  <2> QED BY <2>2, <2>3, <2>4, ReadSnapshotTyped DEF FollowInv
<1> QED BY <1>1, <1>2 DEF Follow!ReadSnapshot

LEMMA EndpointKeeps == FollowInv /\ Follow!Endpoint => FollowInv'
<1> SUFFICES ASSUME FollowInv, Follow!Endpoint PROVE FollowInv'
  OBVIOUS
<1>0. UNCHANGED <<source, follow_applied, child, device>>
  BY DEF Follow!Endpoint, Follow!Quiet
<1>1. CASE Follow!Failed
  BY <1>0, <1>1, FailedKeeps, EndpointTyped DEF FollowInv
<1>2. CASE /\ Follow!StillLatest
           /\ round' = [round EXCEPT !.pc = "compare", !.addr = source.live] /\ UNCHANGED state
  <2>1. round'.pc = "compare" /\ round'.release = round.release /\ round.pc = "endpoint" /\ round'.addr = source.live
    BY <1>2 DEF FollowInv, FollowTyped, RoundRecords, Follow!Endpoint
  <2>2. AddressesAreTrue'
    BY <1>0, <1>2, <2>1 DEF FollowInv, AddressesAreTrue, ListensAt, Ended, SourceOk, Follow!StillLatest
  <2>3. RoundIsOfTheState'
    BY <1>0, <1>2, <2>1 DEF FollowInv, RoundIsOfTheState, Ended
  <2>4. OpenIsUnknown' /\ CleanIsPublished'
    BY <1>0, <2>1 DEF FollowInv, OpenIsUnknown, CleanIsPublished, Follow!Unfinished
  <2> QED BY <2>2, <2>3, <2>4, EndpointTyped DEF FollowInv
<1> QED BY <1>1, <1>2 DEF Follow!Endpoint

LEMMA CompareKeeps == FollowInv /\ Follow!Compare => FollowInv'
<1> SUFFICES ASSUME FollowInv, Follow!Compare PROVE FollowInv'
  OBVIOUS
<1>0. UNCHANGED <<source, follow_applied, child, device>> /\ round.pc = "compare"
  BY DEF Follow!Compare, Follow!Quiet
<1>1. CASE Follow!Failed
  BY <1>0, <1>1, FailedKeeps, CompareTyped DEF FollowInv
<1>2. CASE /\ state' = [state EXCEPT !.status = "succeeded", !.child = Follow!None] /\ round' = Follow!NoRound
  <2>1. round'.pc = "idle" /\ state'.status = "succeeded"
    BY <1>2 DEF FollowInv, FollowTyped, StateRecords, Follow!NoRound
  <2>2. AddressesAreTrue'
    BY <1>0, <1>2, <2>1 DEF FollowInv, AddressesAreTrue, ListensAt, Ended, SourceOk
  <2>3. RoundIsOfTheState'
    BY <2>1 DEF RoundIsOfTheState, Follow!Running
  <2>4. OpenIsUnknown' /\ CleanIsPublished'
    BY <1>0, <2>1 DEF FollowInv, OpenIsUnknown, CleanIsPublished, Follow!Unfinished
  <2> QED BY <2>2, <2>3, <2>4, CompareTyped DEF FollowInv
<1>3. CASE ~Follow!Unpublished /\ round' = [round EXCEPT !.pc = "reserve"] /\ UNCHANGED state
  <2>1. /\ round'.pc = "reserve" /\ round'.release = round.release /\ round'.addr = round.addr
        /\ round'.base = round.base /\ round'.seen = round.seen
    BY <1>3 DEF FollowInv, FollowTyped, RoundRecords
  <2>2. AddressesAreTrue'
    BY <1>0, <1>3, <2>1 DEF FollowInv, AddressesAreTrue, ListensAt, Ended, SourceOk
  <2>3. RoundIsOfTheState'
    BY <1>0, <1>3, <2>1 DEF FollowInv, RoundIsOfTheState, Ended
  <2>4. round.base.other = round.seen.other
    BY <1>3 DEF Follow!Unpublished
  <2>5. OpenIsUnknown' /\ CleanIsPublished'
    BY <1>0, <2>1, <2>4 DEF FollowInv, OpenIsUnknown, CleanIsPublished, Follow!Unfinished
  <2> QED BY <2>2, <2>3, <2>5, CompareTyped DEF FollowInv
<1> QED BY <1>1, <1>2, <1>3 DEF Follow!Compare

LEMMA ReserveKeeps == FollowInv /\ Follow!Reserve => FollowInv'
<1> SUFFICES ASSUME FollowInv, Follow!Reserve PROVE FollowInv'
  OBVIOUS
<1>0. UNCHANGED <<source, follow_applied, device>> /\ round.pc = "reserve"
  BY DEF Follow!Reserve, Follow!Quiet
<1>1. CASE Follow!Failed /\ UNCHANGED child
  BY <1>0, <1>1, FailedKeeps, ReserveTyped DEF FollowInv
<1>2. CASE /\ follow_applied = round.base /\ ~Follow!Unfinished(child)
           /\ child' = [Follow!NoChild EXCEPT !.id = state.child, !.status = "preparing", !.before = device,
                                              !.content = [round.seen EXCEPT !.addr = round.addr]]
           /\ round' = [round EXCEPT !.pc = "reserved"] /\ UNCHANGED state
  <2>1. round'.pc = "reserved"
    BY <1>2 DEF FollowInv, FollowTyped, RoundRecords
  <2>2. /\ child'.id = state.child /\ child'.status = "preparing" /\ child'.agent = "none"
        /\ child'.content.addr = round.addr /\ child'.content.other = round.seen.other /\ child'.before = device
    BY <1>2 DEF FollowInv, FollowTyped, RoundRecords, Upstreams, Follow!NoChild
  <2>3. child'.id[2] = round.release /\ ListensAt(round.release, round.addr)
    BY <1>0, <2>2 DEF FollowInv, RoundIsOfTheState, AddressesAreTrue
  <2>4. AddressesAreTrue'
    BY <1>0, <2>1, <2>2, <2>3 DEF FollowInv, AddressesAreTrue, ListensAt, Ended, SourceOk
  <2>5. RoundIsOfTheState'
    BY <1>0, <1>2, <2>1 DEF FollowInv, RoundIsOfTheState, Ended
  <2>6. device.other = follow_applied.other /\ device.addr = follow_applied.addr
    BY <1>2 DEF FollowInv, OpenIsUnknown, Follow!Unfinished
  <2>7. follow_applied.other = round.seen.other
    BY <1>0, <1>2 DEF FollowInv, CleanIsPublished
  <2>8. OpenIsUnknown' /\ CleanIsPublished'
    BY <1>0, <2>1, <2>2, <2>6, <2>7 DEF OpenIsUnknown, CleanIsPublished, Follow!Unfinished, Follow!Terminal
  <2> QED BY <2>4, <2>5, <2>8, ReserveTyped DEF FollowInv
<1> QED BY <1>1, <1>2 DEF Follow!Reserve

LEMMA SetJobKeeps == FollowInv /\ Follow!SetJob => FollowInv'
<1> SUFFICES ASSUME FollowInv, Follow!SetJob PROVE FollowInv'
  OBVIOUS
<1>1. FollowTyped'
  BY SetJobTyped DEF FollowInv
<1> USE DEF FollowInv, FollowTyped, SourceRecords, ChildRecords, StateRecords, Applications, RoundRecords, Upstreams, Places,
            Keys, Answers, Follow!Terminal, Follow!Running, Follow!Unfinished, Follow!SetJob, Follow!Quiet
<1>2. AddressesAreTrue'
  BY DEF AddressesAreTrue, ListensAt, Ended, SourceOk, RoundIsOfTheState, OpenIsUnknown
<1>3. RoundIsOfTheState'
  BY DEF RoundIsOfTheState, Ended, AddressesAreTrue
<1>4. OpenIsUnknown' /\ CleanIsPublished'
  BY DEF OpenIsUnknown, CleanIsPublished, RoundIsOfTheState
<1> QED BY <1>1, <1>2, <1>3, <1>4

LEMMA PublishKeeps == FollowInv /\ Follow!Publish => FollowInv'
<1> SUFFICES ASSUME FollowInv, Follow!Publish PROVE FollowInv'
  OBVIOUS
<1>0. UNCHANGED <<source, follow_applied, device, state>> /\ round.pc = "job" /\ round'.pc = "resume"
  BY DEF Follow!Publish, Follow!Quiet, Follow!NoRound
<1>1. Follow!Unfinished(child) /\ child.agent = "none"
  BY <1>0 DEF FollowInv, OpenIsUnknown
<1>2. child'.id = child.id /\ child'.content = child.content
  BY DEF FollowInv, FollowTyped, ChildRecords, Follow!Publish
<1>3. AddressesAreTrue'
  BY <1>0, <1>2 DEF FollowInv, AddressesAreTrue, ListensAt, Ended, SourceOk
<1>4. RoundIsOfTheState'
  BY <1>0 DEF FollowInv, RoundIsOfTheState, Ended
<1>5. \/ child'.agent = "running" /\ child'.sent /\ child'.status = "publishing"
      \/ child'.agent = "none" /\ child'.status = "failed"
  BY <1>1 DEF FollowInv, FollowTyped, ChildRecords, Follow!Publish
<1>6. OpenIsUnknown' /\ CleanIsPublished'
  <2>1. child'.before = child.before
    BY DEF FollowInv, FollowTyped, ChildRecords, Follow!Publish
  <2> QED BY <1>0, <1>1, <1>2, <1>5, <2>1 DEF FollowInv, OpenIsUnknown, CleanIsPublished, Follow!Unfinished, Follow!Terminal
<1> QED BY <1>3, <1>4, <1>6, PublishTyped DEF FollowInv

LEMMA ResumeKeeps == FollowInv /\ Follow!Resume => FollowInv'
<1> SUFFICES ASSUME FollowInv, Follow!Resume PROVE FollowInv'
  OBVIOUS
<1>0. UNCHANGED <<source, device>> /\ round.pc = "resume"
  BY DEF Follow!Resume, Follow!Quiet
<1>1. \/ child' = Follow!Polled /\ follow_applied' = Follow!Remembered(Follow!Polled)
      \/ child' = child /\ follow_applied' = follow_applied
      \/ child' = [child EXCEPT !.status = "failed"] /\ ~child.sent /\ follow_applied' = follow_applied
  BY DEF Follow!Resume
<1>2. \/ round'.pc = "idle"
      \/ round'.pc = "check" /\ UNCHANGED state /\ child' = Follow!Polled /\ Follow!Polled.status = "succeeded"
  <2>1. \/ round' = Follow!NoRound
        \/ /\ round' = [round EXCEPT !.pc = "check"] /\ UNCHANGED state
           /\ child' = Follow!Polled /\ Follow!Polled.status = "succeeded"
    BY DEF Follow!Resume, Follow!Failed
  <2> QED BY <2>1 DEF FollowInv, FollowTyped, RoundRecords, Follow!NoRound
<1>3. /\ state.status \in Follow!Running /\ state'.child = state.child /\ state'.release = state.release
      /\ state.child[2] = state.release /\ state.release # 0
  <2>1. state' \in {state, [state EXCEPT !.status = "failed"], [state EXCEPT !.status = "publishing"]}
    BY DEF Follow!Resume, Follow!Failed
  <2> QED BY <1>0, <2>1 DEF FollowInv, FollowTyped, StateRecords, RoundIsOfTheState
<1>4. AddressesAreTrue'
  <2>1. ListensAt(child'.id[2], child'.content.addr) /\ ListensAt(follow_applied'.by[2], follow_applied'.addr)
    BY <1>0, <1>1, DeploymentIsRead DEF FollowInv, AddressesAreTrue
  <2> QED BY <1>0, <1>2, <2>1 DEF FollowInv, AddressesAreTrue, ListensAt, Ended, SourceOk
<1>5. RoundIsOfTheState'
  BY <1>0, <1>2, <1>3 DEF RoundIsOfTheState
<1>6. OpenIsUnknown' /\ CleanIsPublished'
  <2>1. round'.pc = "check" => ~Follow!Unfinished(child')
    BY <1>2 DEF Follow!Unfinished, Follow!Terminal
  <2>2. Follow!Unfinished(child') => child'.content.other = device'.other
    BY <1>0, <1>1, DeploymentIsRead DEF FollowInv, OpenIsUnknown
  <2>3. child'.agent # "none" => child'.sent
    BY <1>0, <1>1, DeploymentIsRead DEF FollowInv, OpenIsUnknown
  <2>4. /\ child'.agent \in {"running", "rollback_failed"} => Follow!Unfinished(child')
        /\ IF Follow!Unfinished(child') /\ child'.agent = "succeeded" THEN device = child'.content
           ELSE /\ device.other = follow_applied'.other
                /\ child'.agent # "rollback_failed" => device.addr = follow_applied'.addr
    BY <1>0, <1>1, DeploymentIsRead
  <2>5. Follow!Unfinished(child') => child'.before.addr = follow_applied'.addr /\ child'.before.other = follow_applied'.other
    BY <1>0, <1>1, DeploymentIsRead DEF FollowInv, OpenIsUnknown
  <2> QED BY <1>0, <1>2, <2>1, <2>2, <2>3, <2>4, <2>5 DEF OpenIsUnknown, CleanIsPublished, Follow!Unfinished
<1> QED BY <1>4, <1>5, <1>6, ResumeTyped DEF FollowInv

LEMMA FinalCheckKeeps == FollowInv /\ Follow!FinalCheck => FollowInv'
<1> SUFFICES ASSUME FollowInv, Follow!FinalCheck PROVE FollowInv'
  OBVIOUS
<1>1. FollowTyped'
  BY FinalCheckTyped DEF FollowInv
<1> USE DEF FollowInv, FollowTyped, SourceRecords, ChildRecords, StateRecords, Applications, RoundRecords, Upstreams, Places,
            Keys, Answers, Follow!Terminal, Follow!Running, Follow!Unfinished, Follow!FinalCheck, Follow!Failed, Follow!Quiet, Follow!NoRound, Follow!Plain, Follow!Manual
<1>2. AddressesAreTrue'
  BY DEF AddressesAreTrue, ListensAt, Ended, SourceOk, RoundIsOfTheState, OpenIsUnknown
<1>3. RoundIsOfTheState'
  BY DEF RoundIsOfTheState, Ended, AddressesAreTrue
<1>4. OpenIsUnknown' /\ CleanIsPublished'
  BY DEF OpenIsUnknown, CleanIsPublished, RoundIsOfTheState
<1> QED BY <1>1, <1>2, <1>3, <1>4

LEMMA FinalizeKeeps == FollowInv /\ Follow!Finalize => FollowInv'
<1> SUFFICES ASSUME FollowInv, Follow!Finalize PROVE FollowInv'
  OBVIOUS
<1>1. FollowTyped'
  BY FinalizeTyped DEF FollowInv
<1> USE DEF FollowInv, FollowTyped, SourceRecords, ChildRecords, StateRecords, Applications, RoundRecords, Upstreams, Places,
            Keys, Answers, Follow!Terminal, Follow!Running, Follow!Unfinished, Follow!Finalize, Follow!Swap, Follow!Candidate
<1>2. AddressesAreTrue'
  BY DEF AddressesAreTrue, ListensAt, Ended, SourceOk, RoundIsOfTheState, OpenIsUnknown
<1>3. RoundIsOfTheState'
  BY DEF RoundIsOfTheState, Ended, AddressesAreTrue
<1>4. OpenIsUnknown' /\ CleanIsPublished'
  BY DEF OpenIsUnknown, CleanIsPublished, RoundIsOfTheState
<1> QED BY <1>1, <1>2, <1>3, <1>4

LEMMA SignKeeps == FollowInv /\ Follow!Sign => FollowInv'
<1> SUFFICES ASSUME FollowInv, Follow!Sign PROVE FollowInv'
  OBVIOUS
<1>1. FollowTyped'
  BY SignTyped DEF FollowInv
<1> USE DEF FollowInv, FollowTyped, SourceRecords, ChildRecords, StateRecords, Applications, RoundRecords, Upstreams, Places,
            Keys, Answers, Follow!Terminal, Follow!Running, Follow!Unfinished, Follow!Sign
<1>2. AddressesAreTrue'
  BY DEF AddressesAreTrue, ListensAt, Ended, SourceOk, RoundIsOfTheState, OpenIsUnknown
<1>3. RoundIsOfTheState'
  BY DEF RoundIsOfTheState, Ended, AddressesAreTrue
<1>4. OpenIsUnknown' /\ CleanIsPublished'
  BY DEF OpenIsUnknown, CleanIsPublished, RoundIsOfTheState
<1> QED BY <1>1, <1>2, <1>3, <1>4

LEMMA SucceedKeeps == FollowInv /\ Follow!Succeed => FollowInv'
<1> SUFFICES ASSUME FollowInv, Follow!Succeed PROVE FollowInv'
  OBVIOUS
<1>1. FollowTyped'
  BY SucceedTyped DEF FollowInv
<1> USE DEF FollowInv, FollowTyped, SourceRecords, ChildRecords, StateRecords, Applications, RoundRecords, Upstreams, Places,
            Keys, Answers, Follow!Terminal, Follow!Running, Follow!Unfinished, Follow!Succeed, Follow!Quiet, Follow!NoRound, Follow!Plain, Follow!Manual
<1>2. AddressesAreTrue'
  BY DEF AddressesAreTrue, ListensAt, Ended, SourceOk, RoundIsOfTheState, OpenIsUnknown
<1>3. RoundIsOfTheState'
  BY DEF RoundIsOfTheState, Ended, AddressesAreTrue
<1>4. OpenIsUnknown' /\ CleanIsPublished'
  BY DEF OpenIsUnknown, CleanIsPublished, RoundIsOfTheState
<1> QED BY <1>1, <1>2, <1>3, <1>4

LEMMA CrashKeeps == FollowInv /\ Follow!Crash => FollowInv'
<1> SUFFICES ASSUME FollowInv, Follow!Crash PROVE FollowInv'
  OBVIOUS
<1>1. FollowTyped'
  BY CrashTyped DEF FollowInv
<1> USE DEF FollowInv, FollowTyped, SourceRecords, ChildRecords, StateRecords, Applications, RoundRecords, Upstreams, Places,
            Keys, Answers, Follow!Terminal, Follow!Running, Follow!Unfinished, Follow!Crash, Follow!NoRound, Follow!Plain, Follow!Manual
<1>2. AddressesAreTrue'
  BY DEF AddressesAreTrue, ListensAt, Ended, SourceOk, RoundIsOfTheState, OpenIsUnknown
<1>3. RoundIsOfTheState'
  BY DEF RoundIsOfTheState, Ended, AddressesAreTrue
<1>4. OpenIsUnknown' /\ CleanIsPublished'
  BY DEF OpenIsUnknown, CleanIsPublished, RoundIsOfTheState
<1> QED BY <1>1, <1>2, <1>3, <1>4

LEMMA FollowStarts == Init => FollowInv
<1> SUFFICES ASSUME Init PROVE FollowInv
  OBVIOUS
<1> USE FollowConstantsTyped DEF Init, Follow!FollowInit
<1>1. FollowTyped
  <2>1. source \in SourceRecords
    BY DEF SourceRecords
  <2>2. follow_applied \in Applications
    BY DEF Applications
  <2>3. binding \in [bound : BOOLEAN, id : Nat, after : Nat, signature : Places]
    OBVIOUS
  <2> QED BY <2>1, <2>2, <2>3 DEF FollowTyped
<1>2. AddressesAreTrue
  BY DEF AddressesAreTrue, ListensAt, Ended, SourceOk, Follow!NoChild, Follow!None, Follow!Manual, Follow!NoRound
<1>3. RoundIsOfTheState
  BY DEF RoundIsOfTheState, Follow!NoState, Follow!NoRound, Follow!Running
<1>4. OpenIsUnknown /\ CleanIsPublished
  BY DEF OpenIsUnknown, CleanIsPublished, Follow!NoChild, Follow!NoRound, Follow!Plain, Follow!Unfinished, Follow!Terminal
<1> QED BY <1>1, <1>2, <1>3, <1>4 DEF FollowInv

LEMMA FollowStands == FollowInv /\ UNCHANGED FollowVars => FollowInv'
BY DEF FollowInv, FollowVars, FollowTyped, AddressesAreTrue, ListensAt, Ended, SourceOk, RoundIsOfTheState, OpenIsUnknown,
       CleanIsPublished, Follow!Unfinished

LEMMA NextIsOfOne == [Next]_vars => [Follow!FollowNext]_FollowVars
BY DEF Next, vars

LEMMA FollowKeeps == FollowInv /\ [Next]_vars => FollowInv'
<1> SUFFICES ASSUME FollowInv, [Next]_vars PROVE FollowInv'
  OBVIOUS
<1>1. CASE UNCHANGED FollowVars
  BY <1>1, FollowStands
<1>2. CASE Follow!FollowNext
  BY <1>2, SourcePublishesKeeps, SourceEndsKeeps, SourceRollbackKeeps, EditDraftKeeps, TargetPublishesKeeps, TargetRollbackKeeps,
     ConfigureKeeps, DisableKeeps, RetryKeeps, AgentEndsKeeps, AgentRecoversKeeps, PollKeeps, TickKeeps, ReadSnapshotKeeps, EndpointKeeps,
     CompareKeeps, ReserveKeeps, SetJobKeeps, PublishKeeps, ResumeKeeps, FinalCheckKeeps, FinalizeKeeps, SignKeeps,
     SucceedKeeps, CrashKeeps
     DEF Follow!FollowNext, Follow!RoundStep
<1> QED BY <1>1, <1>2, NextIsOfOne

LEMMA FollowAlways == Spec => []FollowInv
<1> QED BY FollowStarts, FollowKeeps, PTL DEF Spec

-------------------------------------------------------------------------------
(* What a step of the follower may do, as the properties of DnsFollow say it.          *)
OnlyUpstreamStep == Follow!AgentEnds \/ Follow!AgentRecovers => device'.other = device.other
EditStep == Follow!RoundStep => follow_draft'.other = follow_draft.other
ConnectedStep == round.pc = "check" /\ round'.pc = "finalize" => device.addr = source.live

LEMMA AgentEndsRight == FollowInv => OnlyUpstreamStep
<1> SUFFICES ASSUME FollowInv, Follow!AgentEnds \/ Follow!AgentRecovers PROVE device'.other = device.other
  BY DEF OnlyUpstreamStep
<1>1. Follow!Unfinished(child)
  BY DEF FollowInv, OpenIsUnknown, Follow!AgentEnds, Follow!AgentRecovers
<1>2. child.content.other = device.other
  BY <1>1 DEF FollowInv, OpenIsUnknown
<1>3. child.agent = "rollback_failed" => child.before.other = device.other
  BY <1>1 DEF FollowInv, OpenIsUnknown
<1> QED BY <1>2, <1>3 DEF Follow!AgentEnds, Follow!AgentRecovers

LEMMA DraftIsKept == FollowInv => EditStep
<1> SUFFICES ASSUME FollowInv, Follow!RoundStep PROVE follow_draft'.other = follow_draft.other
  BY DEF EditStep
<1>1. CASE Follow!Finalize
  <2>1. follow_task.from \in Upstreams
    BY DEF FollowInv, FollowTyped
  <2>2. Follow!Candidate.other = follow_task.from.other
    BY <2>1 DEF Upstreams, Follow!Candidate
  <2> QED BY <1>1, <2>2 DEF Follow!Finalize, Follow!Swap
<1>2. CASE ~Follow!Finalize
  <2>1. follow_draft' = follow_draft
    BY <1>2 DEF Follow!RoundStep, Follow!ReadSnapshot, Follow!Endpoint, Follow!Compare, Follow!Reserve, Follow!SetJob,
       Follow!Publish, Follow!Resume, Follow!FinalCheck, Follow!Sign, Follow!Succeed, Follow!Quiet
  <2> QED BY <2>1
<1> QED BY <1>1, <1>2

LEMMA OnlyFinalCheckConfirms ==
  FollowInv /\ [Follow!FollowNext]_FollowVars /\ round.pc = "check" /\ round'.pc = "finalize" => Follow!FinalCheck
<1> SUFFICES ASSUME FollowInv, [Follow!FollowNext]_FollowVars, round.pc = "check", round'.pc = "finalize" PROVE Follow!FinalCheck
  OBVIOUS
<1>1. round' # round
  OBVIOUS
<1>2. round' # Follow!NoRound
  BY DEF Follow!NoRound
<1>3. Follow!RoundStep
  BY <1>1, <1>2 DEF FollowVars, Follow!FollowNext, Follow!SourcePublishes, Follow!SourceEnds, Follow!SourceRollback, Follow!EditDraft,
     Follow!TargetPublishes, Follow!TargetRollback, Follow!Configure, Follow!Disable, Follow!Retry, Follow!AgentEnds,
     Follow!AgentRecovers, Follow!Poll, Follow!Tick, Follow!Crash
<1> QED BY <1>3 DEF Follow!RoundStep, Follow!ReadSnapshot, Follow!Endpoint, Follow!Compare, Follow!Reserve, Follow!SetJob,
       Follow!Publish, Follow!Resume, Follow!Finalize, Follow!Sign, Follow!Succeed

LEMMA ConnectedIsTrue == FollowInv /\ [Follow!FollowNext]_FollowVars => ConnectedStep
<1> SUFFICES ASSUME FollowInv, [Follow!FollowNext]_FollowVars, round.pc = "check", round'.pc = "finalize" PROVE device.addr = source.live
  BY DEF ConnectedStep
<1>1. Follow!FinalCheck
  BY OnlyFinalCheckConfirms
<1>2. /\ follow_applied.by = state.child /\ source.release = state.release /\ SourceOk
  <2>1. round' # Follow!NoRound
    BY DEF Follow!NoRound
  <2> QED BY <1>1, <2>1 DEF Follow!FinalCheck, Follow!Failed, SourceOk
<1>3. state.child[2] = state.release
  BY DEF FollowInv, RoundIsOfTheState
<1>4. follow_applied.addr = source.live
  BY <1>2, <1>3 DEF FollowInv, AddressesAreTrue, ListensAt
<1>5. device.addr = follow_applied.addr
  BY DEF FollowInv, OpenIsUnknown
<1> QED BY <1>4, <1>5

LEMMA FollowSteps == FollowInv /\ [Next]_vars => OnlyUpstreamStep /\ EditStep /\ ConnectedStep
BY AgentEndsRight, DraftIsKept, ConnectedIsTrue, NextIsOfOne

(* What is published for a follower is the followed upstream and nothing else, a draft   *)
(* edit of the target survives, and a follower is called connected only of a target that  *)
(* runs the address, however jobs, releases, rollbacks and crashes interleave             *)
(* (dns_follow.py).                                                                        *)
THEOREM FollowIsCareful == Spec => Follow!OnlyUpstreamIsPublished /\ Follow!EditSurvives /\ Follow!ConnectedWhenConfirmed
<1>1. Spec => [][OnlyUpstreamStep /\ EditStep /\ ConnectedStep]_FollowVars
  <2>1. OnlyUpstreamStep /\ EditStep /\ ConnectedStep => [OnlyUpstreamStep /\ EditStep /\ ConnectedStep]_FollowVars
    OBVIOUS
  <2>2. FollowInv /\ [Next]_vars => [OnlyUpstreamStep /\ EditStep /\ ConnectedStep]_FollowVars
    BY <2>1, FollowSteps
  <2> QED BY <2>2, FollowAlways, PTL DEF Spec
<1>2. [][OnlyUpstreamStep /\ EditStep /\ ConnectedStep]_FollowVars
      => [][OnlyUpstreamStep]_FollowVars /\ [][EditStep]_FollowVars /\ [][ConnectedStep]_FollowVars
  <2>1. [OnlyUpstreamStep /\ EditStep /\ ConnectedStep]_FollowVars
        => [OnlyUpstreamStep]_FollowVars /\ [EditStep]_FollowVars /\ [ConnectedStep]_FollowVars
    OBVIOUS
  <2> QED BY <2>1, PTL
<1>3. ([][OnlyUpstreamStep]_FollowVars) => Follow!OnlyUpstreamIsPublished
  BY DEF Follow!OnlyUpstreamIsPublished, OnlyUpstreamStep, Follow!followVars, FollowVars
<1>4. ([][EditStep]_FollowVars) => Follow!EditSurvives
  BY DEF Follow!EditSurvives, EditStep, Follow!followVars, FollowVars
<1>5. ([][ConnectedStep]_FollowVars) => Follow!ConnectedWhenConfirmed
  BY DEF Follow!ConnectedWhenConfirmed, ConnectedStep, Follow!followVars, FollowVars
<1> QED BY <1>1, <1>2, <1>3, <1>4, <1>5

-------------------------------------------------------------------------------
(* Rules that reach a device.                                                      *)

Sources(n) == [content : [Lists -> 0..n], sets : Nat, rules : Nat, other : Nat]
Known == Sources(device_spent.edits)
ReceiptKeys == Known \X Device!Scopes \X Nat
SyncRecords == [status : {"none", "pending", "failed", "running", "blocked", "succeeded", "idle"}, key : {Device!NoKey} \cup ReceiptKeys,
                native : Nat, force : BOOLEAN, wait : {"none", "retry", "notice"}, deploy : Nat]
DeployRecords == [id : Nat, status : {"running", "unknown"} \cup Device!Terminal, auto : BOOLEAN, source : Known]
TaskRecords == [id : Nat, status : {"idle", "running", "succeeded", "failed"}, left : SUBSET Lists]
WorkerRecords == [pc : {"idle", "compare", "ask", "reserve", "refresh", "put", "verify", "busy", "post", "snapshot", "advance",
                        "prepare", "publish"},
                  view : [settings : Device!Scopes, applied : Nat], old : SyncRecords, base : Known, source : Known,
                  todo : SUBSET Lists, snap : Known]

DeviceTyped ==
  /\ core \in {"mihomo", "oxidns"}
  /\ profile \in Known /\ device_live \in Known
  /\ device_settings \in Device!Scopes /\ online \in BOOLEAN
  /\ device_applied \in [id : Nat, source : Known]
  /\ deploy \in DeployRecords /\ device_task \in TaskRecords /\ sync \in SyncRecords /\ worker \in WorkerRecords
  /\ device_spent \in [edits : Nat, trouble : Nat, releases : Nat]

SameStructure(a, b) == a.sets = b.sets /\ a.rules = b.rules /\ a.other = b.other
Open == deploy.status \notin Device!Terminal
(* A publication number seen before is smaller than that of an open publication.             *)
Past(n) == n # 0 /\ n <= deploy.id /\ (Open => n < deploy.id)

NumbersGrow ==
  /\ deploy.id # 0 /\ device_applied.id <= deploy.id /\ (Open => device_applied.id < deploy.id)
  /\ worker.pc # "idle" => Past(worker.view.applied)
  /\ worker.pc # "idle" /\ device_applied.id = worker.view.applied => device_applied.source = worker.base
LiveIsReceived ==
  /\ deploy.status = "unknown" => deploy.auto /\ worker.pc = "idle" /\ SameStructure(device_live, deploy.source)
  /\ deploy.status # "unknown" /\ device_applied.id # 0 => SameStructure(device_live, device_applied.source)
ReservationIsOwn ==
  /\ worker.pc \in {"prepare", "publish"} =>
       deploy.auto /\ deploy.status = "running" /\ deploy.source = worker.source /\ sync.native = 0
  /\ worker.pc = "publish" => worker.snap = device_live /\ device_task.status # "running"
SourceIsProjected ==
  /\ worker.pc \notin {"idle", "compare"} =>
       /\ worker.source.other = worker.base.other
       /\ ~worker.view.settings.rules => worker.source.rules = worker.base.rules
       /\ ~worker.view.settings.library => worker.source.sets = worker.base.sets /\ worker.source.content = worker.base.content
  /\ worker.pc \in {"refresh", "put", "verify", "busy", "post", "snapshot", "advance"} =>
       worker.view.settings.library /\ SameStructure(worker.source, worker.base)
CoreIsRight ==
  /\ worker.pc \in {"ask", "busy", "post"} => core = "oxidns"
  /\ worker.pc \in {"put", "verify"} => core = "mihomo" /\ sync.status = "running"
  /\ core = "mihomo" => sync.native = 0 /\ worker.old.native = 0 /\ device_task.status # "running"
WorkersKey == <<worker.source, worker.view.settings, worker.view.applied>>
(* What a list may hold after its download: the content projected, or one that was overtaken.      *)
Downloaded(l, s) == device_live.content[l] = s.content[l] \/ profile.content[l] # s.content[l]
PairOk(n, k) ==
  n # 0 => /\ n <= device_task.id /\ k \in ReceiptKeys /\ Past(k[3])
           /\ k[3] = device_applied.id => SameStructure(k[1], device_applied.source)
           /\ k[3] = device_applied.id /\ n = device_task.id /\ device_task.status \in {"running", "succeeded"} =>
                \A l \in Lists \ device_task.left : Downloaded(l, k[1])
TaskIsKnown ==
  /\ device_task.status = "succeeded" => device_task.left = {}
  /\ PairOk(sync.native, sync.key)
  /\ worker.pc # "idle" => PairOk(worker.old.native, worker.old.key)
  /\ worker.pc = "ask" => worker.old.native # 0
  /\ worker.pc \in {"busy", "post"} => sync.key = WorkersKey
  /\ worker.pc \in {"snapshot", "advance"} /\ core = "oxidns" =>
       /\ device_task.status = "succeeded" /\ device_task.id = worker.old.native
       /\ worker.old.native # 0 /\ worker.old.key = WorkersKey
DownloadIsExact ==
  /\ worker.pc \in {"put", "verify"} /\ device_applied.id = worker.view.applied =>
       \A l \in Lists \ worker.todo : Downloaded(l, worker.source)
  /\ worker.pc = "verify" => worker.todo = {}
  /\ worker.pc \in {"snapshot", "advance"} /\ core = "mihomo" /\ device_applied.id = worker.view.applied =>
       device_live.content = worker.source.content

DeviceInv == /\ DeviceTyped /\ NumbersGrow /\ LiveIsReceived /\ ReservationIsOwn /\ SourceIsProjected /\ CoreIsRight /\ TaskIsKnown
             /\ DownloadIsExact

LEMMA RecordsStay ==
  ASSUME device_spent'.edits = device_spent.edits
  PROVE  Known' = Known /\ ReceiptKeys' = ReceiptKeys /\ SyncRecords' = SyncRecords /\ DeployRecords' = DeployRecords
         /\ WorkerRecords' = WorkerRecords
<1>1. Known' = Known
  BY DEF Known
<1>2. ReceiptKeys' = ReceiptKeys
  BY <1>1 DEF ReceiptKeys
<1>3. SyncRecords' = SyncRecords
  BY <1>2 DEF SyncRecords
<1> QED BY <1>1, <1>2, <1>3 DEF DeployRecords, WorkerRecords

LEMMA NextNumber ==
  ASSUME device_applied.id \in Nat, deploy.id \in Nat
  PROVE  Device!NextId \in Nat /\ Device!NextId > device_applied.id /\ Device!NextId > deploy.id
<1> DEFINE n == CHOOSE n \in {device_applied.id, deploy.id} : n >= device_applied.id /\ n >= deploy.id
<1>1. \E m \in {device_applied.id, deploy.id} : m >= device_applied.id /\ m >= deploy.id
  OBVIOUS
<1>2. n \in {device_applied.id, deploy.id} /\ n >= device_applied.id /\ n >= deploy.id
  BY <1>1
<1> HIDE DEF n
<1>3. Device!NextId = 1 + n
  BY DEF Device!NextId, n
<1> QED BY <1>2, <1>3

LEMMA StateTyped ==
  ASSUME NEW st \in {"none", "pending", "failed", "running", "blocked", "succeeded", "idle"}
  PROVE  /\ Device!State(st) \in SyncRecords /\ Device!State(st).native = 0 /\ Device!State(st).key = Device!NoKey
         /\ Device!State(st).status = st
<1>1. Device!NoState \in SyncRecords /\ Device!NoState.native = 0 /\ Device!NoState.key = Device!NoKey
  BY DEF Device!NoState, SyncRecords
<1>2. PICK x \in SyncRecords : x = Device!NoState
  BY <1>1
<1>3. Device!State(st) = [x EXCEPT !.status = st]
  BY <1>2 DEF Device!State
<1> QED BY <1>1, <1>2, <1>3 DEF SyncRecords

(* The states a run leaves keep or drop the number and the key of a download task.               *)
LEMMA StateForms ==
  ASSUME NEW x \in SyncRecords, NEW k \in {Device!NoKey} \cup ReceiptKeys, NEW b \in BOOLEAN, NEW n \in Nat
  PROVE  /\ [x EXCEPT !.native = n, !.key = k, !.force = b] \in SyncRecords
         /\ [x EXCEPT !.native = n, !.key = k, !.force = b].native = n
         /\ [x EXCEPT !.native = n, !.key = k, !.force = b].key = k
         /\ [x EXCEPT !.deploy = n] \in SyncRecords /\ [x EXCEPT !.deploy = n].native = x.native
         /\ [x EXCEPT !.deploy = n].key = x.key
         /\ [x EXCEPT !.wait = "retry"] \in SyncRecords /\ [x EXCEPT !.wait = "retry"].native = x.native
         /\ [x EXCEPT !.key = k, !.wait = "notice", !.force = b] \in SyncRecords
         /\ [x EXCEPT !.key = k, !.wait = "notice", !.force = b].native = x.native
         /\ [x EXCEPT !.force = TRUE, !.wait = "retry"] \in SyncRecords /\ [x EXCEPT !.force = TRUE, !.wait = "retry"].native = x.native
         /\ [x EXCEPT !.key = k] \in SyncRecords /\ [x EXCEPT !.key = k].native = x.native /\ [x EXCEPT !.key = k].key = k
         /\ [x EXCEPT !.key = k].status = x.status
         /\ [x EXCEPT !.native = n] \in SyncRecords /\ [x EXCEPT !.native = n].native = n /\ [x EXCEPT !.native = n].key = x.key
         /\ [x EXCEPT !.deploy = n, !.key = k] \in SyncRecords /\ [x EXCEPT !.deploy = n, !.key = k].native = x.native
         /\ [x EXCEPT !.wait = "none"] \in SyncRecords /\ [x EXCEPT !.wait = "none"].native = x.native
         /\ [x EXCEPT !.wait = "none"].key = x.key /\ [x EXCEPT !.wait = "none"].status = x.status
BY DEF SyncRecords

LEMMA FailedState ==
  ASSUME sync \in SyncRecords
  PROVE  /\ Device!Failed \in SyncRecords /\ Device!Failed.native = sync.native /\ Device!Failed.key = sync.key
         /\ Device!Failed.status = "failed"
<1>1. PICK x \in SyncRecords : x = Device!State("failed")
  BY StateTyped
<1>2. x.status = "failed"
  BY <1>1, StateTyped
<1>3. Device!Failed = [x EXCEPT !.force = TRUE, !.wait = "retry", !.native = sync.native, !.key = sync.key]
  BY <1>1 DEF Device!Failed
<1> QED BY <1>2, <1>3 DEF SyncRecords

LEMMA IdleWorker ==
  ASSUME DeviceTyped
  PROVE  /\ Device!Idle \in WorkerRecords /\ Device!Idle.pc = "idle" /\ Device!Idle.old = sync
         /\ Device!Idle = [pc |-> "idle", view |-> [settings |-> device_settings, applied |-> 0], old |-> sync, base |-> profile,
                           source |-> profile, todo |-> {}, snap |-> device_live]
<1>1. Device!Idle = [pc |-> "idle", view |-> [settings |-> device_settings, applied |-> 0], old |-> sync, base |-> profile,
                     source |-> profile, todo |-> {}, snap |-> device_live]
  BY DEF Device!Idle
<1> QED BY <1>1 DEF DeviceTyped, WorkerRecords

LEMMA ProjectTyped ==
  ASSUME NEW base \in Known, NEW current \in Known, NEW scopes \in Device!Scopes
  PROVE  /\ Device!Project(base, current, scopes) \in Known
         /\ Device!Project(base, current, scopes).other = base.other
         /\ Device!Project(base, current, scopes).content = IF scopes.library THEN current.content ELSE base.content
         /\ ~scopes.library => Device!Project(base, current, scopes).sets = base.sets
         /\ ~scopes.rules => Device!Project(base, current, scopes).rules = base.rules
<1> QED BY DEF Known, Sources, Device!Project, Device!Scopes

LEMMA CandidateTyped ==
  ASSUME DeviceTyped
  PROVE  /\ Device!Candidate \in Known
         /\ Device!Candidate.sets = worker.source.sets /\ Device!Candidate.rules = worker.source.rules
         /\ Device!Candidate.other = worker.snap.other
         /\ Device!Candidate.content = IF worker.view.settings.library THEN worker.source.content ELSE worker.snap.content
<1>1. worker.source \in Known /\ worker.snap \in Known
  BY DEF DeviceTyped, WorkerRecords
<1>2. PICK c : c = IF worker.view.settings.library THEN worker.source.content ELSE worker.snap.content
  OBVIOUS
<1>3. Device!Candidate = [worker.source EXCEPT !.content = c, !.other = worker.snap.other]
  BY <1>2 DEF Device!Candidate
<1>4. c \in [Lists -> 0..device_spent.edits] /\ worker.snap.other \in Nat
  BY <1>1, <1>2 DEF Known, Sources
<1> QED BY <1>1, <1>2, <1>3, <1>4 DEF Known, Sources

LEMMA ContentTyped ==
  ASSUME NEW a \in Known, NEW b \in Known, NEW l \in Lists
  PROVE  /\ [a EXCEPT !.content[l] = b.content[l]] \in Known
         /\ SameStructure([a EXCEPT !.content[l] = b.content[l]], a)
         /\ [a EXCEPT !.content[l] = b.content[l]].content = [a.content EXCEPT ![l] = b.content[l]]
         /\ a.content \in [Lists -> Nat]
BY DEF Known, Sources, SameStructure

LEMMA KindIsRight ==
  ASSUME NEW base \in Known, NEW new \in Known
  PROVE  /\ Device!Kind(base, new) = "none" => new = base
         /\ Device!Kind(base, new) = "content" => SameStructure(new, base) /\ new.content # base.content
         /\ Device!Kind(base, new) \in {"none", "content", "structure"}
<1>1. Device!Kind(base, new) \in {"none", "content", "structure"}
  BY DEF Device!Kind
<1>2. ASSUME Device!Kind(base, new) = "none" PROVE new = base
  BY <1>2 DEF Device!Kind
<1>3. ASSUME Device!Kind(base, new) = "content" PROVE SameStructure(new, base) /\ new.content # base.content
  <2>1. [new EXCEPT !.content = base.content] = base /\ new # base
    BY <1>3 DEF Device!Kind
  <2>2. [new EXCEPT !.content = base.content] = [content |-> base.content, sets |-> new.sets, rules |-> new.rules, other |-> new.other]
    BY DEF Known, Sources
  <2>3. base.sets = new.sets /\ base.rules = new.rules /\ base.other = new.other
    BY <2>1, <2>2
  <2>4. new = [content |-> new.content, sets |-> new.sets, rules |-> new.rules, other |-> new.other]
       /\ base = [content |-> base.content, sets |-> base.sets, rules |-> base.rules, other |-> base.other]
    BY DEF Known, Sources
  <2>5. new.content # base.content
    BY <2>1, <2>3, <2>4
  <2> QED BY <2>3, <2>5 DEF SameStructure
<1> QED BY <1>1, <1>2, <1>3

LEMMA DeviceConfigureTyped == DeviceTyped /\ Device!Configure => DeviceTyped'
<1> SUFFICES ASSUME DeviceTyped, Device!Configure PROVE DeviceTyped'
  OBVIOUS
<1>0. device_spent'.edits = device_spent.edits
  BY DEF DeviceTyped, Device!Configure, Device!Trouble
<1> USE <1>0, RecordsStay DEF DeviceTyped, Device!Configure, Device!Trouble
<1>1. device_settings' \in Device!Scopes
  BY DEF Device!Configure, Device!Trouble
<1>2. device_spent' \in [edits : Nat, trouble : Nat, releases : Nat]
  BY DEF Device!Configure, Device!Trouble
<1>3. UNCHANGED <<core, profile, online, device_applied, deploy, device_live, device_task, sync, worker>>
  BY DEF Device!Configure, Device!Trouble
<1> QED BY <1>1, <1>2, <1>3

LEMMA DeviceDepartsTyped == DeviceTyped /\ Device!Departs => DeviceTyped'
<1> SUFFICES ASSUME DeviceTyped, Device!Departs PROVE DeviceTyped'
  OBVIOUS
<1>0. device_spent'.edits = device_spent.edits
  BY DEF DeviceTyped, Device!Departs, Device!Trouble
<1> USE <1>0, RecordsStay DEF DeviceTyped, Device!Departs, Device!Trouble
<1>1. online' \in BOOLEAN
  BY DEF Device!Departs, Device!Trouble
<1>2. device_spent' \in [edits : Nat, trouble : Nat, releases : Nat]
  BY DEF Device!Departs, Device!Trouble
<1>3. UNCHANGED <<core, profile, device_settings, device_applied, deploy, device_live, device_task, sync, worker>>
  BY DEF Device!Departs, Device!Trouble, Device!EndWith, Device!Quit
<1> QED BY <1>1, <1>2, <1>3

LEMMA DeviceReturnsTyped == DeviceTyped /\ Device!Returns => DeviceTyped'
<1> SUFFICES ASSUME DeviceTyped, Device!Returns PROVE DeviceTyped'
  OBVIOUS
<1>0. device_spent'.edits = device_spent.edits
  BY DEF DeviceTyped, Device!Returns
<1> USE <1>0, RecordsStay DEF DeviceTyped, Device!Returns
<1>1. online' \in BOOLEAN
  BY DEF Device!Returns
<1>2. UNCHANGED <<core, profile, device_settings, device_applied, deploy, device_live, device_task, sync, worker, device_spent>>
  BY DEF Device!Returns, Device!EndWith, Device!Quit
<1> QED BY <1>1, <1>2

LEMMA DeviceReleaseBeginsTyped == DeviceTyped /\ Device!ReleaseBegins => DeviceTyped'
<1> SUFFICES ASSUME DeviceTyped, Device!ReleaseBegins PROVE DeviceTyped'
  OBVIOUS
<1>0. device_spent'.edits = device_spent.edits
  BY DEF DeviceTyped, Device!ReleaseBegins
<1> USE <1>0, RecordsStay DEF DeviceTyped, Device!ReleaseBegins
<1>1. deploy' \in DeployRecords
  BY NextNumber DEF Device!ReleaseBegins, DeployRecords, Device!Terminal, DeviceTyped
<1>2. device_spent' \in [edits : Nat, trouble : Nat, releases : Nat]
  BY NextNumber DEF Device!ReleaseBegins
<1>3. UNCHANGED <<core, profile, device_settings, online, device_applied, device_live, device_task, sync, worker>>
  BY DEF Device!ReleaseBegins, Device!EndWith, Device!Quit
<1> QED BY <1>1, <1>2, <1>3

LEMMA DeviceReleaseEndsTyped == DeviceTyped /\ Device!ReleaseEnds => DeviceTyped'
<1> SUFFICES ASSUME DeviceTyped, Device!ReleaseEnds PROVE DeviceTyped'
  OBVIOUS
<1>0. device_spent'.edits = device_spent.edits
  BY DEF DeviceTyped, Device!ReleaseEnds
<1> USE <1>0, RecordsStay DEF DeviceTyped, Device!ReleaseEnds
<1>1. deploy' \in DeployRecords
  BY DEF Device!ReleaseEnds, DeployRecords, Device!Terminal
<1>2. device_applied' \in [id : Nat, source : Known]
  BY DEF Device!ReleaseEnds, DeployRecords
<1>3. device_live' \in Known
  BY DEF Device!ReleaseEnds, DeployRecords
<1>4. UNCHANGED <<core, profile, device_settings, online, device_task, sync, worker, device_spent>>
  BY DEF Device!ReleaseEnds, Device!EndWith, Device!Quit
<1> QED BY <1>1, <1>2, <1>3, <1>4

LEMMA DeviceForgetTyped == DeviceTyped /\ Device!Forget => DeviceTyped'
<1> SUFFICES ASSUME DeviceTyped, Device!Forget PROVE DeviceTyped'
  OBVIOUS
<1>0. device_spent'.edits = device_spent.edits
  BY DEF DeviceTyped, Device!Forget, Device!Trouble
<1> USE <1>0, RecordsStay DEF DeviceTyped, Device!Forget, Device!Trouble
<1>1. device_applied' \in [id : Nat, source : Known]
  BY DEF Device!Forget, Device!Trouble, DeployRecords
<1>2. device_spent' \in [edits : Nat, trouble : Nat, releases : Nat]
  BY DEF Device!Forget, Device!Trouble
<1>3. UNCHANGED <<core, profile, device_settings, online, deploy, device_live, device_task, sync, worker>>
  BY DEF Device!Forget, Device!Trouble, Device!EndWith, Device!Quit
<1> QED BY <1>1, <1>2, <1>3

LEMMA DeviceTaskStepTyped == DeviceTyped /\ Device!TaskStep => DeviceTyped'
<1> SUFFICES ASSUME DeviceTyped, Device!TaskStep PROVE DeviceTyped'
  OBVIOUS
<1>0. device_spent'.edits = device_spent.edits
  BY DEF DeviceTyped, Device!TaskStep, Device!Trouble
<1> USE <1>0, RecordsStay DEF DeviceTyped, Device!TaskStep, Device!Trouble
<1>1. device_live' \in Known
  <2>1. CASE UNCHANGED device_live
    BY <2>1
  <2>2. CASE \E l \in device_task.left : device_live' = [device_live EXCEPT !.content[l] = profile.content[l]]
    <3> PICK l \in device_task.left : device_live' = [device_live EXCEPT !.content[l] = profile.content[l]]
      BY <2>2
    <3>1. l \in Lists
      BY DEF TaskRecords
    <3> QED BY <3>1, ContentTyped
  <2> QED BY <2>1, <2>2
<1>2. device_task' \in TaskRecords
  <2>1. CASE device_task' = [device_task EXCEPT !.status = "failed"]
    BY <2>1 DEF TaskRecords
  <2>2. CASE \E l \in device_task.left : device_task' = [device_task EXCEPT !.left = @ \ {l}, !.status = IF device_task.left = {l} THEN "succeeded" ELSE "running"]
    <3> PICK l \in device_task.left : device_task' = [device_task EXCEPT !.left = @ \ {l}, !.status = IF device_task.left = {l} THEN "succeeded" ELSE "running"]
      BY <2>2
    <3>1. PICK st \in {"running", "succeeded"} : st = IF device_task.left = {l} THEN "succeeded" ELSE "running"
      OBVIOUS
    <3>2. device_task' = [device_task EXCEPT !.left = device_task.left \ {l}, !.status = st]
      BY <3>1
    <3>3. device_task.left \ {l} \in SUBSET Lists
      BY DEF TaskRecords
    <3> QED BY <3>2, <3>3 DEF TaskRecords
  <2> QED BY <2>1, <2>2
<1>3. device_spent' \in [edits : Nat, trouble : Nat, releases : Nat]
  <2>1. UNCHANGED device_spent \/ device_spent' = [device_spent EXCEPT !.trouble = @ + 1]
    OBVIOUS
  <2> HIDE DEF Device!TaskStep, Device!Trouble
  <2> QED BY <2>1
<1>4. UNCHANGED <<core, profile, device_settings, online, device_applied, deploy, sync, worker>>
  BY DEF Device!TaskStep, Device!Trouble, Device!EndWith, Device!Quit
<1> QED BY <1>1, <1>2, <1>3, <1>4

LEMMA DeviceTimePassesTyped == DeviceTyped /\ Device!TimePasses => DeviceTyped'
<1> SUFFICES ASSUME DeviceTyped, Device!TimePasses PROVE DeviceTyped'
  OBVIOUS
<1>0. device_spent'.edits = device_spent.edits
  BY DEF DeviceTyped, Device!TimePasses
<1> USE <1>0, RecordsStay DEF DeviceTyped, Device!TimePasses
<1>1. sync' \in SyncRecords
  BY IdleWorker, StateTyped, FailedState DEF Device!TimePasses, Device!EndWith, Device!Quit, SyncRecords
<1>2. UNCHANGED <<core, profile, device_settings, online, device_applied, deploy, device_live, device_task, worker, device_spent>>
  BY DEF Device!TimePasses, Device!EndWith, Device!Quit
<1> QED BY <1>1, <1>2

LEMMA DeviceReadTyped == DeviceTyped /\ Device!Read => DeviceTyped'
<1> SUFFICES ASSUME DeviceTyped, Device!Read PROVE DeviceTyped'
  OBVIOUS
<1>0. device_spent'.edits = device_spent.edits
  BY DEF DeviceTyped, Device!Read
<1> USE <1>0, RecordsStay DEF DeviceTyped, Device!Read
<1>1. sync' \in SyncRecords
  <2>1. PICK p \in SyncRecords : p = Device!State("pending")
    BY StateTyped
  <2>0. PICK b \in BOOLEAN : b = (sync.force \/ sync.status = "running")
    OBVIOUS
  <2>9. PICK k \in {Device!NoKey} \cup ReceiptKeys, n \in Nat : k = sync.key /\ n = sync.native
    BY DEF SyncRecords
  <2>2. [p EXCEPT !.native = n, !.key = k, !.force = b] \in SyncRecords
    BY StateForms
  <2>3. PICK q \in SyncRecords : q = Device!State(IF sync.deploy = deploy.id THEN "running" ELSE "pending")
    BY StateTyped
  <2>4. [q EXCEPT !.deploy = sync.deploy] \in SyncRecords
    BY StateForms DEF SyncRecords
  <2>5. PICK r \in SyncRecords : r = Device!State("failed")
    BY StateTyped
  <2>6. [r EXCEPT !.wait = "retry"] \in SyncRecords
    BY DEF SyncRecords
  <2>7. Device!State("blocked") \in SyncRecords /\ Device!State("succeeded") \in SyncRecords
    BY StateTyped
  <2>8. sync' \in {[p EXCEPT !.native = n, !.key = k, !.force = b],
                   [q EXCEPT !.deploy = sync.deploy], [r EXCEPT !.wait = "retry"], Device!State("blocked"),
                   Device!State("succeeded"), sync}
    BY <2>0, <2>9, <2>1, <2>3, <2>5
  <2> QED BY <2>2, <2>4, <2>6, <2>7, <2>8
<1>2. worker' \in WorkerRecords
  <2>1. PICK w \in WorkerRecords : w = Device!Idle
    BY IdleWorker
  <2>2. [settings |-> device_settings, applied |-> device_applied.id] \in [settings : Device!Scopes, applied : Nat]
    OBVIOUS
  <2>3. device_applied.source \in Known
    OBVIOUS
  <2>4. [w EXCEPT !.pc = "compare", !.view = [settings |-> device_settings, applied |-> device_applied.id],
                  !.base = device_applied.source, !.old = sync] \in WorkerRecords
    BY <2>2, <2>3 DEF WorkerRecords
  <2>5. \/ UNCHANGED worker
        \/ worker' = [w EXCEPT !.pc = "compare", !.view = [settings |-> device_settings, applied |-> device_applied.id],
                               !.base = device_applied.source, !.old = sync]
    BY <2>1
  <2> QED BY <2>4, <2>5
<1>3. UNCHANGED <<core, profile, device_settings, online, device_applied, deploy, device_live, device_task, device_spent>>
  BY DEF Device!Read, Device!EndWith, Device!Quit
<1> QED BY <1>1, <1>2, <1>3

LEMMA DeviceCompareTyped == DeviceTyped /\ Device!Compare => DeviceTyped'
<1> SUFFICES ASSUME DeviceTyped, Device!Compare PROVE DeviceTyped'
  OBVIOUS
<1>0. device_spent'.edits = device_spent.edits
  BY DEF DeviceTyped, Device!Compare
<1> USE <1>0, RecordsStay DEF DeviceTyped, Device!Compare
<1>1. worker' \in WorkerRecords
  <2> DEFINE new == Device!Project(worker.base, profile, worker.view.settings)
  <2>1. new \in Known
    BY ProjectTyped DEF WorkerRecords
  <2> HIDE DEF new
  <2>2. \/ worker' = Device!Idle \/ UNCHANGED worker
        \/ \E p \in {"ask", "reserve", "refresh"} : worker' = [worker EXCEPT !.pc = p, !.source = new]
    BY DEF new, Device!EndWith, Device!Quit
  <2> QED BY <2>1, <2>2, IdleWorker DEF WorkerRecords
<1>2. sync' \in SyncRecords
  <2> DEFINE new == Device!Project(worker.base, profile, worker.view.settings)
             key == <<new, worker.view.settings, worker.view.applied>>
  <2>1. new \in Known
    BY ProjectTyped DEF WorkerRecords
  <2>2. key \in ReceiptKeys
    BY <2>1 DEF WorkerRecords, ReceiptKeys
  <2> HIDE DEF new, key
  <2>3. PICK p \in SyncRecords : p = Device!State("pending")
    BY StateTyped
  <2>4. PICK b \in BOOLEAN : b = (worker.old.force \/ worker.old.status = "running")
    OBVIOUS
  <2>5. [p EXCEPT !.key = key, !.wait = "notice", !.force = b] \in SyncRecords
    BY <2>2, StateForms
  <2>6. sync' \in {sync, Device!State("idle"), [p EXCEPT !.key = key, !.wait = "notice", !.force = b]}
    BY <2>3, <2>4 DEF new, key, Device!EndWith, Device!Quit
  <2> QED BY <2>5, <2>6, StateTyped
<1>3. UNCHANGED <<core, profile, device_settings, online, device_applied, deploy, device_live, device_task, device_spent>>
  BY DEF Device!Compare, Device!EndWith, Device!Quit
<1> QED BY <1>1, <1>2, <1>3

LEMMA DeviceAskTyped == DeviceTyped /\ Device!Ask => DeviceTyped'
<1> SUFFICES ASSUME DeviceTyped, Device!Ask PROVE DeviceTyped'
  OBVIOUS
<1>0. device_spent'.edits = device_spent.edits
  BY DEF DeviceTyped, Device!Ask
<1> USE <1>0, RecordsStay DEF DeviceTyped, Device!Ask
<1>1. worker' \in WorkerRecords
  <2>1. worker' \in {Device!Idle, [worker EXCEPT !.pc = "snapshot"]}
    BY DEF Device!EndWith, Device!Quit, Device!Acknowledge
  <2> QED BY <2>1, IdleWorker DEF WorkerRecords
<1>2. sync' \in SyncRecords
  <2> DEFINE key == <<worker.source, worker.view.settings, worker.view.applied>>
  <2>1. key \in ReceiptKeys
    BY DEF WorkerRecords, ReceiptKeys
  <2> HIDE DEF key
  <2>2. PICK p \in SyncRecords : p = Device!State("pending")
    BY StateTyped
  <2>3. PICK r \in SyncRecords : r = Device!State("failed")
    BY StateTyped
  <2>4. /\ [p EXCEPT !.key = key, !.wait = "notice", !.force = TRUE] \in SyncRecords
        /\ [r EXCEPT !.force = TRUE, !.wait = "retry"] \in SyncRecords
    BY <2>1, StateForms
  <2>5. sync' \in {sync, Device!Failed, Device!State("idle"), Device!State("pending"), [r EXCEPT !.force = TRUE, !.wait = "retry"],
                   [p EXCEPT !.key = key, !.wait = "notice", !.force = TRUE]}
    BY <2>2, <2>3 DEF key, Device!EndWith, Device!Quit, Device!Acknowledge
  <2> QED BY <2>4, <2>5, StateTyped, FailedState
<1>3. device_applied' \in [id : Nat, source : Known]
  <2>1. UNCHANGED device_applied \/ device_applied' = [device_applied EXCEPT !.source = worker.base]
    BY DEF Device!Acknowledge
  <2>2. worker.base \in Known
    BY DEF WorkerRecords
  <2> QED BY <2>1, <2>2
<1>4. UNCHANGED <<core, profile, device_settings, online, deploy, device_live, device_task, device_spent>>
  BY DEF Device!Ask, Device!EndWith, Device!Quit
<1> QED BY <1>1, <1>2, <1>3, <1>4

LEMMA DeviceStartRefreshTyped == DeviceTyped /\ Device!StartRefresh => DeviceTyped'
<1> SUFFICES ASSUME DeviceTyped, Device!StartRefresh PROVE DeviceTyped'
  OBVIOUS
<1>0. device_spent'.edits = device_spent.edits
  BY DEF DeviceTyped, Device!StartRefresh
<1> USE <1>0, RecordsStay DEF DeviceTyped, Device!StartRefresh
<1>1. sync' \in SyncRecords
  <2> DEFINE key == <<worker.source, worker.view.settings, worker.view.applied>>
  <2>1. key \in ReceiptKeys
    BY DEF WorkerRecords, ReceiptKeys
  <2> HIDE DEF key
  <2>2. PICK p \in SyncRecords : p = Device!State("running")
    BY StateTyped
  <2>3. [p EXCEPT !.key = key] \in SyncRecords
    BY <2>1, StateForms
  <2>4. sync' \in {sync, [p EXCEPT !.key = key]}
    BY <2>2 DEF key, Device!Quit
  <2> QED BY <2>3, <2>4
<1>2. worker' \in WorkerRecords
  BY IdleWorker, StateTyped, FailedState DEF Device!StartRefresh, Device!EndWith, Device!Quit, WorkerRecords
<1>3. UNCHANGED <<core, profile, device_settings, online, device_applied, deploy, device_live, device_task, device_spent>>
  BY DEF Device!StartRefresh, Device!EndWith, Device!Quit
<1> QED BY <1>1, <1>2, <1>3

LEMMA DevicePutTyped == DeviceTyped /\ Device!Put => DeviceTyped'
<1> SUFFICES ASSUME DeviceTyped, Device!Put PROVE DeviceTyped'
  OBVIOUS
<1>0. device_spent'.edits = device_spent.edits
  BY DEF DeviceTyped, Device!Put
<1> USE <1>0, RecordsStay DEF DeviceTyped, Device!Put
<1>1. device_live' \in Known
  <2>1. CASE UNCHANGED device_live
    BY <2>1
  <2>2. CASE \E l \in worker.todo : device_live' = [device_live EXCEPT !.content[l] = profile.content[l]]
    <3> PICK l \in worker.todo : device_live' = [device_live EXCEPT !.content[l] = profile.content[l]]
      BY <2>2
    <3>1. l \in Lists
      BY DEF WorkerRecords
    <3> QED BY <3>1, ContentTyped
  <2> QED BY <2>1, <2>2
<1>2. worker' \in WorkerRecords
  BY IdleWorker, StateTyped, FailedState DEF Device!Put, Device!EndWith, Device!Quit, WorkerRecords
<1>3. UNCHANGED <<core, profile, device_settings, online, device_applied, deploy, device_task, sync, device_spent>>
  BY DEF Device!Put, Device!EndWith, Device!Quit
<1> QED BY <1>1, <1>2, <1>3

LEMMA DevicePutDoneTyped == DeviceTyped /\ Device!PutDone => DeviceTyped'
<1> SUFFICES ASSUME DeviceTyped, Device!PutDone PROVE DeviceTyped'
  OBVIOUS
<1>0. device_spent'.edits = device_spent.edits
  BY DEF DeviceTyped, Device!PutDone
<1> USE <1>0, RecordsStay DEF DeviceTyped, Device!PutDone
<1>1. worker' \in WorkerRecords
  BY IdleWorker, StateTyped, FailedState DEF Device!PutDone, Device!EndWith, Device!Quit, WorkerRecords
<1>2. UNCHANGED <<core, profile, device_settings, online, device_applied, deploy, device_live, device_task, sync, device_spent>>
  BY DEF Device!PutDone, Device!EndWith, Device!Quit
<1> QED BY <1>1, <1>2

LEMMA DeviceBusyTyped == DeviceTyped /\ Device!Busy => DeviceTyped'
<1> SUFFICES ASSUME DeviceTyped, Device!Busy PROVE DeviceTyped'
  OBVIOUS
<1>0. device_spent'.edits = device_spent.edits
  BY DEF DeviceTyped, Device!Busy
<1> USE <1>0, RecordsStay DEF DeviceTyped, Device!Busy
<1>1. worker' \in WorkerRecords
  BY IdleWorker, StateTyped, FailedState DEF Device!Busy, Device!EndWith, Device!Quit, WorkerRecords
<1>2. sync' \in SyncRecords
  BY IdleWorker, StateTyped, FailedState DEF Device!Busy, Device!EndWith, Device!Quit, SyncRecords
<1>3. UNCHANGED <<core, profile, device_settings, online, device_applied, deploy, device_live, device_task, device_spent>>
  BY DEF Device!Busy, Device!EndWith, Device!Quit
<1> QED BY <1>1, <1>2, <1>3

LEMMA DevicePostTyped == DeviceTyped /\ Device!Post => DeviceTyped'
<1> SUFFICES ASSUME DeviceTyped, Device!Post PROVE DeviceTyped'
  OBVIOUS
<1>0. device_spent'.edits = device_spent.edits
  BY DEF DeviceTyped, Device!Post, Device!Trouble
<1> USE <1>0, RecordsStay DEF DeviceTyped, Device!Post, Device!Trouble
<1>1. device_task' \in TaskRecords
  BY DEF Device!Post, Device!Trouble, TaskRecords
<1>2. worker' \in WorkerRecords
  BY IdleWorker, StateTyped, FailedState DEF Device!Post, Device!Trouble, Device!EndWith, Device!Quit, WorkerRecords
<1>3. sync' \in SyncRecords
  <2>1. [sync EXCEPT !.native = device_task.id + 1] \in SyncRecords
    BY DEF TaskRecords, SyncRecords
  <2>2. sync' \in {[sync EXCEPT !.native = device_task.id + 1], Device!Failed}
    BY DEF Device!EndWith
  <2> QED BY <2>1, <2>2, FailedState
<1>4. device_spent' \in [edits : Nat, trouble : Nat, releases : Nat]
  BY DEF Device!Post, Device!Trouble
<1>5. UNCHANGED <<core, profile, device_settings, online, device_applied, deploy, device_live>>
  BY DEF Device!Post, Device!Trouble, Device!EndWith, Device!Quit
<1> QED BY <1>1, <1>2, <1>3, <1>4, <1>5

LEMMA DeviceVerifyTyped == DeviceTyped /\ Device!Verify => DeviceTyped'
<1> SUFFICES ASSUME DeviceTyped, Device!Verify PROVE DeviceTyped'
  OBVIOUS
<1>0. device_spent'.edits = device_spent.edits
  BY DEF DeviceTyped, Device!Verify
<1> USE <1>0, RecordsStay DEF DeviceTyped, Device!Verify
<1>1. worker' \in WorkerRecords
  BY IdleWorker, StateTyped, FailedState DEF Device!Verify, Device!EndWith, Device!Quit, WorkerRecords
<1>2. sync' \in SyncRecords
  BY IdleWorker, StateTyped, FailedState DEF Device!Verify, Device!EndWith, Device!Quit, SyncRecords
<1>3. UNCHANGED <<core, profile, device_settings, online, device_applied, deploy, device_live, device_task, device_spent>>
  BY DEF Device!Verify, Device!EndWith, Device!Quit
<1> QED BY <1>1, <1>2, <1>3

LEMMA DeviceSnapshotTyped == DeviceTyped /\ Device!Snapshot => DeviceTyped'
<1> SUFFICES ASSUME DeviceTyped, Device!Snapshot PROVE DeviceTyped'
  OBVIOUS
<1>0. device_spent'.edits = device_spent.edits
  BY DEF DeviceTyped, Device!Snapshot
<1> USE <1>0, RecordsStay DEF DeviceTyped, Device!Snapshot
<1>1. worker' \in WorkerRecords
  BY IdleWorker, StateTyped, FailedState DEF Device!Snapshot, Device!EndWith, Device!Quit, WorkerRecords
<1>2. UNCHANGED <<core, profile, device_settings, online, device_applied, deploy, device_live, device_task, sync, device_spent>>
  BY DEF Device!Snapshot, Device!EndWith, Device!Quit
<1> QED BY <1>1, <1>2

LEMMA DeviceAdvanceTyped == DeviceTyped /\ Device!Advance => DeviceTyped'
<1> SUFFICES ASSUME DeviceTyped, Device!Advance PROVE DeviceTyped'
  OBVIOUS
<1>0. device_spent'.edits = device_spent.edits
  BY DEF DeviceTyped, Device!Advance
<1> USE <1>0, RecordsStay DEF DeviceTyped, Device!Advance
<1>1. device_applied' \in [id : Nat, source : Known]
  <2>1. UNCHANGED device_applied \/ device_applied' = [device_applied EXCEPT !.source = worker.source]
    BY DEF Device!Acknowledge
  <2>2. worker.source \in Known
    BY DEF WorkerRecords
  <2> QED BY <2>1, <2>2
<1>2. worker' \in WorkerRecords
  BY IdleWorker DEF Device!Acknowledge, Device!EndWith, Device!Quit
<1>3. sync' \in SyncRecords
  BY StateTyped DEF Device!Acknowledge, Device!EndWith, Device!Quit
<1>4. UNCHANGED <<core, profile, device_settings, online, deploy, device_live, device_task, device_spent>>
  BY DEF Device!Advance, Device!EndWith, Device!Quit
<1> QED BY <1>1, <1>2, <1>3, <1>4

LEMMA DeviceReserveTyped == DeviceTyped /\ Device!Reserve => DeviceTyped'
<1> SUFFICES ASSUME DeviceTyped, Device!Reserve PROVE DeviceTyped'
  OBVIOUS
<1>0. device_spent'.edits = device_spent.edits
  BY DEF DeviceTyped, Device!Reserve
<1> USE <1>0, RecordsStay DEF DeviceTyped, Device!Reserve
<1>1. deploy' \in DeployRecords
  <2>1. worker.source \in Known /\ Device!NextId \in Nat
    BY NextNumber DEF WorkerRecords, DeployRecords
  <2>2. UNCHANGED deploy \/ deploy' = [id |-> Device!NextId, status |-> "running", auto |-> TRUE, source |-> worker.source]
    OBVIOUS
  <2> QED BY <2>1, <2>2 DEF DeployRecords
<1>2. sync' \in SyncRecords
  <2> DEFINE key == <<worker.source, worker.view.settings, worker.view.applied>>
  <2>1. key \in ReceiptKeys /\ Device!NextId \in Nat
    BY NextNumber DEF WorkerRecords, ReceiptKeys, DeployRecords
  <2> HIDE DEF key
  <2>2. PICK p \in SyncRecords : p = Device!State("running")
    BY StateTyped
  <2>3. [p EXCEPT !.deploy = Device!NextId, !.key = key] \in SyncRecords
    BY <2>1, StateForms
  <2>4. sync' \in {Device!State("pending"), [p EXCEPT !.deploy = Device!NextId, !.key = key]}
    BY <2>2 DEF key, Device!EndWith
  <2> QED BY <2>3, <2>4, StateTyped
<1>3. worker' \in WorkerRecords
  BY IdleWorker, StateTyped, FailedState DEF Device!Reserve, Device!EndWith, Device!Quit, WorkerRecords
<1>4. UNCHANGED <<core, profile, device_settings, online, device_applied, device_live, device_task, device_spent>>
  BY DEF Device!Reserve, Device!EndWith, Device!Quit
<1> QED BY <1>1, <1>2, <1>3, <1>4

LEMMA DevicePrepareTyped == DeviceTyped /\ Device!Prepare => DeviceTyped'
<1> SUFFICES ASSUME DeviceTyped, Device!Prepare PROVE DeviceTyped'
  OBVIOUS
<1>0. device_spent'.edits = device_spent.edits
  BY DEF DeviceTyped, Device!Prepare
<1> USE <1>0, RecordsStay DEF DeviceTyped, Device!Prepare
<1>1. worker' \in WorkerRecords
  BY IdleWorker, StateTyped, FailedState DEF Device!Prepare, Device!EndWith, Device!Quit, WorkerRecords
<1>2. UNCHANGED <<core, profile, device_settings, online, device_applied, deploy, device_live, device_task, sync, device_spent>>
  BY DEF Device!Prepare, Device!EndWith, Device!Quit
<1> QED BY <1>1, <1>2

LEMMA DevicePublishTyped == DeviceTyped /\ Device!Publish => DeviceTyped'
<1> SUFFICES ASSUME DeviceTyped, Device!Publish PROVE DeviceTyped'
  OBVIOUS
<1>0. device_spent'.edits = device_spent.edits
  BY DEF DeviceTyped, Device!Publish, Device!Trouble
<1> USE <1>0, RecordsStay DEF DeviceTyped, Device!Publish, Device!Trouble
<1>1. deploy' \in DeployRecords
  BY DEF Device!Publish, Device!Trouble, DeployRecords, Device!Terminal
<1>2. device_live' \in Known
  <2>1. UNCHANGED device_live \/ device_live' = Device!Candidate
    OBVIOUS
  <2> QED BY <2>1, CandidateTyped
<1>3. device_applied' \in [id : Nat, source : Known]
  <2>1. worker.source \in Known /\ deploy.id \in Nat
    BY DEF WorkerRecords, DeployRecords
  <2>2. UNCHANGED device_applied \/ device_applied' = [id |-> deploy.id, source |-> worker.source]
    OBVIOUS
  <2> QED BY <2>1, <2>2
<1>4. worker' \in WorkerRecords
  BY IdleWorker, StateTyped, FailedState DEF Device!Publish, Device!Trouble, Device!EndWith, Device!Quit, WorkerRecords
<1>5. sync' \in SyncRecords
  BY IdleWorker, StateTyped, FailedState DEF Device!Publish, Device!Trouble, Device!EndWith, Device!Quit, SyncRecords
<1>6. device_spent' \in [edits : Nat, trouble : Nat, releases : Nat]
  BY DEF Device!Publish, Device!Trouble
<1>7. UNCHANGED <<core, profile, device_settings, online, device_task>>
  BY DEF Device!Publish, Device!Trouble, Device!EndWith, Device!Quit
<1> QED BY <1>1, <1>2, <1>3, <1>4, <1>5, <1>6, <1>7

LEMMA DevicePolledTyped == DeviceTyped /\ Device!Polled => DeviceTyped'
<1> SUFFICES ASSUME DeviceTyped, Device!Polled PROVE DeviceTyped'
  OBVIOUS
<1>0. device_spent'.edits = device_spent.edits
  BY DEF DeviceTyped, Device!Polled
<1> USE <1>0, RecordsStay DEF DeviceTyped, Device!Polled
<1>1. deploy' \in DeployRecords
  BY DEF Device!Polled, DeployRecords, Device!Terminal
<1>2. device_applied' \in [id : Nat, source : Known]
  BY DEF Device!Polled, DeployRecords
<1>3. UNCHANGED <<core, profile, device_settings, online, device_live, device_task, sync, worker, device_spent>>
  BY DEF Device!Polled, Device!EndWith, Device!Quit
<1> QED BY <1>1, <1>2, <1>3

LEMMA DeviceCallFailsTyped == DeviceTyped /\ Device!CallFails => DeviceTyped'
<1> SUFFICES ASSUME DeviceTyped, Device!CallFails PROVE DeviceTyped'
  OBVIOUS
<1>0. device_spent'.edits = device_spent.edits
  BY DEF DeviceTyped, Device!CallFails, Device!Trouble
<1> USE <1>0, RecordsStay DEF DeviceTyped, Device!CallFails, Device!Trouble
<1>1. deploy' \in DeployRecords
  BY DEF Device!CallFails, Device!Trouble, DeployRecords, Device!Terminal
<1>2. worker' \in WorkerRecords
  BY IdleWorker, StateTyped, FailedState DEF Device!CallFails, Device!Trouble, Device!EndWith, Device!Quit, WorkerRecords
<1>3. sync' \in SyncRecords
  BY IdleWorker, StateTyped, FailedState DEF Device!CallFails, Device!Trouble, Device!EndWith, Device!Quit, SyncRecords
<1>4. device_spent' \in [edits : Nat, trouble : Nat, releases : Nat]
  BY DEF Device!CallFails, Device!Trouble
<1>5. UNCHANGED <<core, profile, device_settings, online, device_applied, device_live, device_task>>
  BY DEF Device!CallFails, Device!Trouble, Device!EndWith, Device!Quit
<1> QED BY <1>1, <1>2, <1>3, <1>4, <1>5

LEMMA DeviceCrashTyped == DeviceTyped /\ Device!Crash => DeviceTyped'
<1> SUFFICES ASSUME DeviceTyped, Device!Crash PROVE DeviceTyped'
  OBVIOUS
<1>0. device_spent'.edits = device_spent.edits
  BY DEF DeviceTyped, Device!Crash, Device!Trouble
<1> USE <1>0, RecordsStay DEF DeviceTyped, Device!Crash, Device!Trouble
<1>1. worker' \in WorkerRecords
  BY IdleWorker, StateTyped, FailedState DEF Device!Crash, Device!Trouble, Device!EndWith, Device!Quit, WorkerRecords
<1>2. device_spent' \in [edits : Nat, trouble : Nat, releases : Nat]
  BY DEF Device!Crash, Device!Trouble
<1>3. UNCHANGED <<core, profile, device_settings, online, device_applied, deploy, device_live, device_task, sync>>
  BY DEF Device!Crash, Device!Trouble, Device!EndWith, Device!Quit
<1> QED BY <1>1, <1>2, <1>3

LEMMA RecordsGrow ==
  ASSUME device_spent.edits \in Nat, device_spent'.edits = device_spent.edits + 1
  PROVE  /\ Known \subseteq Known' /\ ReceiptKeys \subseteq ReceiptKeys' /\ SyncRecords \subseteq SyncRecords'
         /\ DeployRecords \subseteq DeployRecords' /\ WorkerRecords \subseteq WorkerRecords'
<1>1. Known \subseteq Known'
  <2>1. 0..device_spent.edits \subseteq 0..(device_spent.edits + 1)
    OBVIOUS
  <2>2. [Lists -> 0..device_spent.edits] \subseteq [Lists -> 0..(device_spent.edits + 1)]
    BY <2>1
  <2> QED BY <2>2 DEF Known, Sources
<1>2. ReceiptKeys \subseteq ReceiptKeys'
  BY <1>1 DEF ReceiptKeys
<1>3. SyncRecords \subseteq SyncRecords'
  BY <1>2 DEF SyncRecords
<1>4. DeployRecords \subseteq DeployRecords'
  BY <1>1 DEF DeployRecords
<1>5. WorkerRecords \subseteq WorkerRecords'
  BY <1>1, <1>3 DEF WorkerRecords
<1> QED BY <1>1, <1>2, <1>3, <1>4, <1>5

(* An edit of the profile: a new value for one of its parts, or an older content.*)
LEMMA DeviceEditProfileTyped == DeviceTyped /\ Device!EditProfile => DeviceTyped'
<1> SUFFICES ASSUME DeviceTyped, Device!EditProfile PROVE DeviceTyped'
  OBVIOUS
<1>0. device_spent'.edits = device_spent.edits + 1 /\ device_spent.edits \in Nat
  BY DEF DeviceTyped, Device!EditProfile
<1>1. device_spent' \in [edits : Nat, trouble : Nat, releases : Nat]
  BY DEF DeviceTyped, Device!EditProfile
<1>2. UNCHANGED <<core, device_settings, online, device_applied, deploy, device_live, device_task, sync, worker>>
  BY DEF Device!EditProfile
<1>3. profile' \in Known'
  <2> DEFINE n == device_spent.edits + 1
  <2>1. Known' = Sources(n)
    BY <1>0 DEF Known
  <2>2. profile \in Sources(n)
    BY <1>0, <2>1, RecordsGrow DEF DeviceTyped
  <2>3. CASE \E l \in Lists : \E v \in ({n} \cup Device!Returned(l)) \ {profile.content[l]} : profile' = [profile EXCEPT !.content[l] = v]
    <3>0. PICK l \in Lists : \E v \in ({n} \cup Device!Returned(l)) \ {profile.content[l]} : profile' = [profile EXCEPT !.content[l] = v]
      BY <2>3
    <3>5. PICK v \in ({n} \cup Device!Returned(l)) \ {profile.content[l]} : profile' = [profile EXCEPT !.content[l] = v]
      BY <3>0
    <3>1. device_applied.source.content[l] \in 0..device_spent.edits
      BY DEF DeviceTyped, Known, Sources
    <3>2. v \in 0..n
      BY <1>0, <3>1 DEF Device!Returned
    <3> HIDE DEF n
    <3> QED BY <2>1, <2>2, <3>5, <3>2 DEF Sources
  <2>4. CASE \E f \in {"sets", "rules", "other"} : profile' = [profile EXCEPT ![f] = n]
    <3> PICK f \in {"sets", "rules", "other"} : profile' = [profile EXCEPT ![f] = n]
      BY <2>4
    <3>1. n \in Nat
      BY <1>0
    <3> HIDE DEF n
    <3>2. CASE f = "sets"
      BY <2>1, <2>2, <3>1, <3>2 DEF Sources
    <3>3. CASE f = "rules"
      BY <2>1, <2>2, <3>1, <3>3 DEF Sources
    <3>4. CASE f = "other"
      BY <2>1, <2>2, <3>1, <3>4 DEF Sources
    <3> QED BY <3>2, <3>3, <3>4
  <2> QED BY <2>3, <2>4 DEF Device!EditProfile
<1>4. device_applied' \in [id : Nat, source : Known'] /\ device_live' \in Known' /\ deploy' \in DeployRecords' /\ sync' \in SyncRecords'
      /\ worker' \in WorkerRecords'
  BY <1>0, <1>2, RecordsGrow DEF DeviceTyped
<1> QED BY <1>1, <1>2, <1>3, <1>4 DEF DeviceTyped

LEMMA PairStays ==
  ASSUME NEW n, NEW k, PairOk(n, k), device_spent'.edits = device_spent.edits,
         UNCHANGED <<profile, device_applied, deploy, device_live, device_task>>
  PROVE  PairOk(n, k)'
<1>1. ReceiptKeys' = ReceiptKeys
  BY RecordsStay
<1> QED BY <1>1 DEF PairOk, Past, Open, Downloaded

LEMMA FrameKeeps ==
  ASSUME DeviceInv, DeviceTyped', device_spent'.edits = device_spent.edits,
         UNCHANGED <<core, profile, device_applied, deploy, device_live, device_task, worker>>,
         sync'.native = 0 \/ (sync'.native = sync.native /\ sync'.key = sync.key),
         worker.pc # "idle" => sync'.native = sync.native /\ sync'.key = sync.key /\ sync'.status = sync.status
  PROVE  DeviceInv'
<1>1. NumbersGrow'
  BY DEF DeviceInv, NumbersGrow, Past, Open
<1>2. LiveIsReceived'
  BY DEF DeviceInv, LiveIsReceived, SameStructure
<1>3. ReservationIsOwn'
  BY DEF DeviceInv, ReservationIsOwn
<1>4. SourceIsProjected'
  BY DEF DeviceInv, SourceIsProjected, SameStructure
<1>5. CoreIsRight'
  BY DEF DeviceInv, CoreIsRight
<1>6. TaskIsKnown'
  <2>1. PICK n, k : n = sync'.native /\ k = sync'.key
    OBVIOUS
  <2>2. PICK n2, k2 : n2 = worker.old.native /\ k2 = worker.old.key
    OBVIOUS
  <2>3. PairOk(n, k)
    BY <2>1 DEF DeviceInv, TaskIsKnown, PairOk
  <2>4. PairOk(n, k)'
    BY <2>3, PairStays
  <2>5. PairOk(sync.native, sync.key)'
    BY <2>1, <2>4
  <2>6. worker.pc # "idle" => PairOk(n2, k2)
    BY <2>2 DEF DeviceInv, TaskIsKnown
  <2>7. worker.pc # "idle" => PairOk(n2, k2)'
    BY <2>6, PairStays
  <2>8. worker'.pc # "idle" => PairOk(worker.old.native, worker.old.key)'
    BY <2>2, <2>7
  <2> HIDE DEF PairOk
  <2> QED BY <2>5, <2>8 DEF DeviceInv, TaskIsKnown, WorkersKey
<1>7. DownloadIsExact'
  BY DEF DeviceInv, DownloadIsExact, Downloaded
<1> QED BY <1>1, <1>2, <1>3, <1>4, <1>5, <1>6, <1>7 DEF DeviceInv

(* A run that ends leaves the device as it is.                                                   *)
LEMMA QuitKeeps ==
  ASSUME DeviceInv, DeviceTyped', device_spent'.edits = device_spent.edits,
         UNCHANGED <<core, profile, device_applied, deploy, device_live, device_task>>,
         sync'.native = 0 \/ (sync'.native = sync.native /\ sync'.key = sync.key),
         worker'.pc = "idle", worker'.old = sync
  PROVE  DeviceInv'
<1>1. NumbersGrow'
  BY DEF DeviceInv, NumbersGrow, Past, Open
<1>2. LiveIsReceived'
  BY DEF DeviceInv, LiveIsReceived, SameStructure
<1>3. ReservationIsOwn' /\ SourceIsProjected' /\ DownloadIsExact'
  BY DEF ReservationIsOwn, SourceIsProjected, DownloadIsExact
<1>5. CoreIsRight'
  BY DEF DeviceInv, CoreIsRight
<1>6. TaskIsKnown'
  <2>1. PICK n, k : n = sync'.native /\ k = sync'.key
    OBVIOUS
  <2>3. PairOk(n, k)
    BY <2>1 DEF DeviceInv, TaskIsKnown, PairOk
  <2>4. PairOk(n, k)'
    BY <2>3, PairStays
  <2>5. PairOk(sync.native, sync.key)'
    BY <2>1, <2>4
  <2> HIDE DEF PairOk
  <2> QED BY <2>5 DEF DeviceInv, TaskIsKnown, WorkersKey
<1> QED BY <1>1, <1>2, <1>3, <1>5, <1>6 DEF DeviceInv

LEMMA MoveKeeps ==
  ASSUME DeviceInv, DeviceTyped', device_spent'.edits = device_spent.edits,
         UNCHANGED <<core, profile, device_applied, deploy, device_live, device_task>>,
         sync'.native = 0 \/ (sync'.native = sync.native /\ sync'.key = sync.key),
         worker.pc # "idle", worker'.pc # "idle", worker'.view = worker.view, worker'.base = worker.base, worker'.old = worker.old
  PROVE  NumbersGrow' /\ LiveIsReceived' /\ PairOk(sync.native, sync.key)' /\ PairOk(worker.old.native, worker.old.key)'
<1>1. NumbersGrow'
  BY DEF DeviceInv, NumbersGrow, Past, Open
<1>2. LiveIsReceived'
  BY DEF DeviceInv, LiveIsReceived, SameStructure
<1>3. PICK n, k : n = sync'.native /\ k = sync'.key
  OBVIOUS
<1>4. PICK n2, k2 : n2 = worker.old.native /\ k2 = worker.old.key
  OBVIOUS
<1>5. PairOk(n, k) /\ PairOk(n2, k2)
  BY <1>3, <1>4 DEF DeviceInv, TaskIsKnown, PairOk
<1>6. PairOk(n, k)' /\ PairOk(n2, k2)'
  BY <1>5, PairStays
<1> HIDE DEF PairOk
<1> QED BY <1>1, <1>2, <1>3, <1>4, <1>6

LEMMA DeviceConfigureKeeps == DeviceInv /\ Device!Configure => DeviceInv'
<1> SUFFICES ASSUME DeviceInv, Device!Configure PROVE DeviceInv'
  OBVIOUS
<1>a. DeviceTyped /\ DeviceTyped'
  BY DeviceConfigureTyped DEF DeviceInv
<1> QED BY <1>a, FrameKeeps DEF DeviceTyped, Device!Configure, Device!Trouble

LEMMA DeviceDepartsKeeps == DeviceInv /\ Device!Departs => DeviceInv'
<1> SUFFICES ASSUME DeviceInv, Device!Departs PROVE DeviceInv'
  OBVIOUS
<1>a. DeviceTyped /\ DeviceTyped'
  BY DeviceDepartsTyped DEF DeviceInv
<1> QED BY <1>a, FrameKeeps DEF DeviceTyped, Device!Departs, Device!Trouble

LEMMA DeviceReturnsKeeps == DeviceInv /\ Device!Returns => DeviceInv'
<1> SUFFICES ASSUME DeviceInv, Device!Returns PROVE DeviceInv'
  OBVIOUS
<1>a. DeviceTyped /\ DeviceTyped'
  BY DeviceReturnsTyped DEF DeviceInv
<1> QED BY <1>a, FrameKeeps DEF DeviceTyped, Device!Returns, Device!Trouble

LEMMA DeviceTimePassesKeeps == DeviceInv /\ Device!TimePasses => DeviceInv'
<1> SUFFICES ASSUME DeviceInv, Device!TimePasses PROVE DeviceInv'
  OBVIOUS
<1>a. DeviceTyped /\ DeviceTyped'
  BY DeviceTimePassesTyped DEF DeviceInv
<1>1. sync'.native = sync.native /\ sync'.key = sync.key /\ sync'.status = sync.status
  BY <1>a DEF DeviceTyped, SyncRecords, Device!TimePasses
<1> QED BY <1>a, <1>1, FrameKeeps DEF Device!TimePasses

LEMMA DeviceCrashKeeps == DeviceInv /\ Device!Crash => DeviceInv'
<1> SUFFICES ASSUME DeviceInv, Device!Crash PROVE DeviceInv'
  OBVIOUS
<1>a. DeviceTyped /\ DeviceTyped'
  BY DeviceCrashTyped DEF DeviceInv
<1>1. worker'.pc = "idle" /\ worker'.old = sync
  BY <1>a, IdleWorker DEF Device!Crash
<1> QED BY <1>a, <1>1, QuitKeeps DEF Device!Crash, Device!Trouble, DeviceTyped

LEMMA DeviceReadKeeps == DeviceInv /\ Device!Read => DeviceInv'
<1> SUFFICES ASSUME DeviceInv, Device!Read PROVE DeviceInv'
  OBVIOUS
<1>a. DeviceTyped /\ DeviceTyped'
  BY DeviceReadTyped DEF DeviceInv
<1>0. /\ UNCHANGED <<core, profile, device_applied, deploy, device_live, device_task>> /\ worker.pc = "idle"
      /\ device_spent'.edits = device_spent.edits
  BY DEF Device!Read
<1>1. PICK p \in SyncRecords, q \in SyncRecords, r \in SyncRecords :
        /\ p = Device!State("pending") /\ r = Device!State("failed") /\ p.native = 0 /\ r.native = 0
        /\ q = Device!State(IF sync.deploy = deploy.id THEN "running" ELSE "pending") /\ q.native = 0
  BY StateTyped
<1>2. \/ sync' = [p EXCEPT !.native = sync.native, !.key = sync.key, !.force = sync.force \/ sync.status = "running"]
      \/ sync' = [q EXCEPT !.deploy = sync.deploy] \/ sync' = [r EXCEPT !.wait = "retry"]
      \/ sync' = Device!State("blocked") \/ sync' = Device!State("succeeded") \/ sync' = sync
  BY <1>1 DEF Device!Read
<1>3. sync'.native = 0 \/ (sync'.native = sync.native /\ sync'.key = sync.key)
  BY <1>1, <1>2, StateTyped DEF SyncRecords
<1>4. CASE UNCHANGED worker
  BY <1>a, <1>0, <1>3, <1>4, FrameKeeps
<1>5. CASE /\ deploy.status \in Device!Terminal /\ device_applied.id # 0
           /\ worker' = [Device!Idle EXCEPT !.pc = "compare", !.view = [settings |-> device_settings, applied |-> device_applied.id],
                                            !.base = device_applied.source, !.old = sync]
  <2>1. /\ worker'.pc = "compare" /\ worker'.view.applied = device_applied.id /\ worker'.base = device_applied.source
        /\ worker'.old = sync
    BY <1>5 DEF Device!Idle
  <2>2. NumbersGrow'
    BY <1>0, <1>5, <2>1 DEF DeviceInv, NumbersGrow, Past, Open
  <2>3. LiveIsReceived'
    BY <1>0, <1>5, <2>1 DEF DeviceInv, LiveIsReceived, SameStructure, Device!Terminal
  <2>4. ReservationIsOwn' /\ SourceIsProjected' /\ DownloadIsExact'
    BY <2>1 DEF ReservationIsOwn, SourceIsProjected, DownloadIsExact
  <2>5. CoreIsRight'
    BY <1>0, <1>3, <2>1 DEF DeviceInv, CoreIsRight
  <2>6. TaskIsKnown'
    <3>1. PICK n, k : n = sync'.native /\ k = sync'.key
      OBVIOUS
    <3>2. PICK n2, k2 : n2 = sync.native /\ k2 = sync.key
      OBVIOUS
    <3>3. PairOk(n, k) /\ PairOk(n2, k2)
      BY <1>3, <3>1, <3>2 DEF DeviceInv, TaskIsKnown, PairOk
    <3>4. PairOk(n, k)' /\ PairOk(n2, k2)'
      BY <1>0, <3>3, PairStays
    <3>5. PairOk(sync.native, sync.key)' /\ PairOk(worker.old.native, worker.old.key)'
      BY <2>1, <3>1, <3>2, <3>4
    <3> HIDE DEF PairOk
    <3> QED BY <1>0, <2>1, <3>5 DEF DeviceInv, TaskIsKnown
  <2> QED BY <1>a, <2>2, <2>3, <2>4, <2>5, <2>6 DEF DeviceInv
<1> QED BY <1>4, <1>5 DEF Device!Read

LEMMA DeviceCompareKeeps == DeviceInv /\ Device!Compare => DeviceInv'
<1> SUFFICES ASSUME DeviceInv, Device!Compare PROVE DeviceInv'
  OBVIOUS
<1>a. DeviceTyped /\ DeviceTyped'
  BY DeviceCompareTyped DEF DeviceInv
<1>0. /\ UNCHANGED <<core, profile, device_applied, deploy, device_live, device_task>> /\ worker.pc = "compare"
      /\ device_spent'.edits = device_spent.edits
  BY DEF Device!Compare
<1> DEFINE new == Device!Project(worker.base, profile, worker.view.settings)
           key == <<new, worker.view.settings, worker.view.applied>>
           kind == Device!Kind(worker.base, new)
<1>1. worker.base \in Known /\ profile \in Known /\ worker.view.settings \in Device!Scopes
  BY <1>a DEF DeviceTyped, WorkerRecords
<1>2. /\ new \in Known /\ new.other = worker.base.other
      /\ new.content = IF worker.view.settings.library THEN profile.content ELSE worker.base.content
      /\ ~worker.view.settings.library => new.sets = worker.base.sets
      /\ ~worker.view.settings.rules => new.rules = worker.base.rules
  BY <1>1, ProjectTyped
<1>3. \/ worker' = Device!Idle /\ (sync' = sync \/ sync' = Device!State("idle") \/
            sync' = [Device!State("pending") EXCEPT !.key = key, !.wait = "notice", !.force = worker.old.force \/ worker.old.status = "running"])
      \/ /\ worker' = [worker EXCEPT !.pc = "ask", !.source = new] /\ sync' = sync /\ worker.old.native # 0 /\ core = "oxidns"
      \/ /\ worker' = [worker EXCEPT !.pc = IF kind = "structure" THEN "reserve" ELSE "refresh", !.source = new] /\ sync' = sync
         /\ kind # "none" \/ Device!Reconciles(worker.old, worker.view.settings)
         /\ ~(worker.old.native # 0 /\ core = "oxidns")
  BY DEF Device!Compare, Device!EndWith, Device!Quit
<1>4. (kind = "none" => new = worker.base) /\ (kind = "content" => SameStructure(new, worker.base) /\ new.content # worker.base.content)
      /\ kind \in {"none", "content", "structure"}
  BY <1>1, <1>2, KindIsRight
<1> HIDE DEF new, kind, key
<1>5. CASE worker' = Device!Idle /\ (sync' = sync \/ sync' = Device!State("idle") \/
            sync' = [Device!State("pending") EXCEPT !.key = key, !.wait = "notice", !.force = worker.old.force \/ worker.old.status = "running"])
  <2>1. PICK p \in SyncRecords : p = Device!State("pending") /\ p.native = 0
    BY StateTyped
  <2>2. sync' = sync \/ sync' = Device!State("idle")
        \/ sync' = [p EXCEPT !.key = key, !.wait = "notice", !.force = worker.old.force \/ worker.old.status = "running"]
    BY <1>5, <2>1
  <2>3. sync'.native = 0 \/ sync' = sync
    BY <2>1, <2>2, StateTyped DEF SyncRecords
  <2>4. worker'.pc = "idle" /\ worker'.old = sync
    BY <1>a, <1>5, IdleWorker
  <2> QED BY <1>a, <1>0, <2>3, <2>4, QuitKeeps
<1>6. ASSUME NEW pc \in {"ask", "reserve", "refresh"}, worker' = [worker EXCEPT !.pc = pc, !.source = new], sync' = sync,
             pc = "ask" => worker.old.native # 0 /\ core = "oxidns",
             pc = "refresh" => worker.view.settings.library /\ SameStructure(new, worker.base)
      PROVE  DeviceInv'
  <2>1. /\ worker'.pc = pc /\ worker'.source = new /\ worker'.base = worker.base /\ worker'.view = worker.view /\ worker'.old = worker.old
    BY <1>a, <1>6 DEF DeviceTyped, WorkerRecords
  <2>2. NumbersGrow' /\ LiveIsReceived' /\ PairOk(sync.native, sync.key)' /\ PairOk(worker.old.native, worker.old.key)'
    BY <1>a, <1>0, <1>6, <2>1, MoveKeeps
  <2>3. ReservationIsOwn' /\ DownloadIsExact'
    BY <2>1 DEF ReservationIsOwn, DownloadIsExact
  <2>4. SourceIsProjected'
    BY <1>2, <1>6, <2>1 DEF SourceIsProjected, SameStructure
  <2>5. CoreIsRight'
    BY <1>0, <1>6, <2>1 DEF DeviceInv, CoreIsRight
  <2>6. TaskIsKnown'
    BY <1>0, <1>6, <2>1, <2>2 DEF DeviceInv, TaskIsKnown
  <2> QED BY <1>a, <2>2, <2>3, <2>4, <2>5, <2>6 DEF DeviceInv
<1>7. CASE worker' = [worker EXCEPT !.pc = "ask", !.source = new] /\ sync' = sync /\ worker.old.native # 0 /\ core = "oxidns"
  BY <1>6, <1>7
<1>8. CASE /\ worker' = [worker EXCEPT !.pc = IF kind = "structure" THEN "reserve" ELSE "refresh", !.source = new] /\ sync' = sync
           /\ kind # "none" \/ Device!Reconciles(worker.old, worker.view.settings)
           /\ ~(worker.old.native # 0 /\ core = "oxidns")
  <2>1. CASE kind = "structure"
    BY <1>6, <1>8, <2>1
  <2>2. CASE kind # "structure"
    <3>1. worker.view.settings.library
      <4>1. core \in {"mihomo", "oxidns"}
        BY <1>a DEF DeviceTyped
      <4>2. CASE kind = "content"
        BY <1>2, <1>4, <4>2
      <4>3. CASE kind = "none"
        BY <1>8, <4>1, <4>3 DEF Device!Reconciles, DeviceInv, CoreIsRight
      <4> QED BY <1>4, <2>2, <4>2, <4>3
    <3>2. SameStructure(new, worker.base)
      BY <1>4, <2>2 DEF SameStructure
    <3> QED BY <1>6, <1>8, <2>2, <3>1, <3>2
  <2> QED BY <2>1, <2>2
<1> QED BY <1>3, <1>5, <1>7, <1>8

LEMMA DeviceStartRefreshKeeps == DeviceInv /\ Device!StartRefresh => DeviceInv'
<1> SUFFICES ASSUME DeviceInv, Device!StartRefresh PROVE DeviceInv'
  OBVIOUS
<1>a. DeviceTyped /\ DeviceTyped'
  BY DeviceStartRefreshTyped DEF DeviceInv
<1>0. /\ UNCHANGED <<core, profile, device_applied, deploy, device_live, device_task>> /\ worker.pc = "refresh"
      /\ device_spent'.edits = device_spent.edits
  BY DEF Device!StartRefresh
<1>1. CASE Device!Quit
  <2>1. worker'.pc = "idle" /\ worker'.old = sync /\ sync' = sync
    BY <1>a, <1>1, IdleWorker DEF Device!Quit
  <2> QED BY <1>a, <1>0, <2>1, QuitKeeps
<1>2. CASE /\ sync' = [Device!State("running") EXCEPT !.key = WorkersKey]
           /\ worker' = [worker EXCEPT !.pc = IF core = "mihomo" THEN "put" ELSE "busy", !.todo = Lists]
  <2>1. PICK p \in SyncRecords : p = Device!State("running") /\ p.native = 0 /\ p.status = "running"
    BY StateTyped
  <2>2. sync'.native = 0 /\ sync'.key = WorkersKey /\ sync'.status = "running"
    BY <1>2, <2>1 DEF SyncRecords
  <2>3. /\ worker'.pc = (IF core = "mihomo" THEN "put" ELSE "busy") /\ worker'.todo = Lists /\ worker'.source = worker.source
        /\ worker'.base = worker.base /\ worker'.view = worker.view /\ worker'.old = worker.old
    BY <1>a, <1>2 DEF DeviceTyped, WorkerRecords
  <2>4. NumbersGrow' /\ LiveIsReceived' /\ PairOk(sync.native, sync.key)' /\ PairOk(worker.old.native, worker.old.key)'
    BY <1>a, <1>0, <2>2, <2>3, MoveKeeps
  <2>5. ReservationIsOwn' /\ DownloadIsExact'
    BY <2>3 DEF ReservationIsOwn, DownloadIsExact
  <2>6. SourceIsProjected'
    BY <1>0, <2>3 DEF DeviceInv, SourceIsProjected, SameStructure
  <2>7. CoreIsRight'
    BY <1>a, <1>0, <2>2, <2>3 DEF DeviceInv, DeviceTyped, CoreIsRight
  <2>8. TaskIsKnown'
    BY <1>0, <2>2, <2>3, <2>4 DEF DeviceInv, TaskIsKnown, WorkersKey
  <2> QED BY <1>a, <2>4, <2>5, <2>6, <2>7, <2>8 DEF DeviceInv
<1> QED BY <1>1, <1>2 DEF Device!StartRefresh, WorkersKey

LEMMA DeviceBusyKeeps == DeviceInv /\ Device!Busy => DeviceInv'
<1> SUFFICES ASSUME DeviceInv, Device!Busy PROVE DeviceInv'
  OBVIOUS
<1>a. DeviceTyped /\ DeviceTyped'
  BY DeviceBusyTyped DEF DeviceInv
<1>0. /\ UNCHANGED <<core, profile, device_applied, deploy, device_live, device_task>> /\ worker.pc = "busy"
      /\ device_spent'.edits = device_spent.edits
  BY DEF Device!Busy
<1>1. CASE Device!EndWith([Device!State("pending") EXCEPT !.key = sync.key])
  <2>1. PICK p \in SyncRecords : p = Device!State("pending") /\ p.native = 0
    BY StateTyped
  <2>2. sync'.native = 0
    BY <1>1, <2>1 DEF SyncRecords, Device!EndWith
  <2>3. worker'.pc = "idle" /\ worker'.old = sync
    BY <1>a, <1>1, IdleWorker DEF Device!EndWith
  <2> QED BY <1>a, <1>0, <2>2, <2>3, QuitKeeps
<1>2. CASE worker' = [worker EXCEPT !.pc = "post"] /\ sync' = sync
  <2>3. /\ worker'.pc = "post" /\ worker'.source = worker.source
        /\ worker'.base = worker.base /\ worker'.view = worker.view /\ worker'.old = worker.old
    BY <1>a, <1>2 DEF DeviceTyped, WorkerRecords
  <2>4. NumbersGrow' /\ LiveIsReceived' /\ PairOk(sync.native, sync.key)' /\ PairOk(worker.old.native, worker.old.key)'
    BY <1>a, <1>0, <1>2, <2>3, MoveKeeps
  <2>5. ReservationIsOwn' /\ DownloadIsExact'
    BY <2>3 DEF ReservationIsOwn, DownloadIsExact
  <2>6. SourceIsProjected'
    BY <1>0, <2>3 DEF DeviceInv, SourceIsProjected, SameStructure
  <2>7. CoreIsRight'
    BY <1>0, <1>2, <2>3 DEF DeviceInv, CoreIsRight
  <2>8. TaskIsKnown'
    BY <1>0, <1>2, <2>3, <2>4 DEF DeviceInv, TaskIsKnown, WorkersKey
  <2> QED BY <1>a, <2>4, <2>5, <2>6, <2>7, <2>8 DEF DeviceInv
<1> QED BY <1>1, <1>2 DEF Device!Busy

LEMMA DevicePutDoneKeeps == DeviceInv /\ Device!PutDone => DeviceInv'
<1> SUFFICES ASSUME DeviceInv, Device!PutDone PROVE DeviceInv'
  OBVIOUS
<1>a. DeviceTyped /\ DeviceTyped'
  BY DevicePutDoneTyped DEF DeviceInv
<1>0. /\ UNCHANGED <<core, profile, device_applied, deploy, device_live, device_task>> /\ worker.pc = "put"
      /\ device_spent'.edits = device_spent.edits /\ worker.todo = {} /\ sync' = sync
  BY DEF Device!PutDone
<1>3. /\ worker'.pc = "verify" /\ worker'.source = worker.source /\ worker'.todo = {}
      /\ worker'.base = worker.base /\ worker'.view = worker.view /\ worker'.old = worker.old
  BY <1>a, <1>0 DEF DeviceTyped, WorkerRecords, Device!PutDone
<1>4. NumbersGrow' /\ LiveIsReceived' /\ PairOk(sync.native, sync.key)' /\ PairOk(worker.old.native, worker.old.key)'
  BY <1>a, <1>0, <1>3, MoveKeeps
<1>5. ReservationIsOwn'
  BY <1>3 DEF ReservationIsOwn
<1>9. DownloadIsExact'
  BY <1>0, <1>3 DEF DeviceInv, DownloadIsExact, Downloaded
<1>6. SourceIsProjected'
  BY <1>0, <1>3 DEF DeviceInv, SourceIsProjected, SameStructure
<1>7. CoreIsRight'
  BY <1>0, <1>3 DEF DeviceInv, CoreIsRight
<1>8. TaskIsKnown'
  BY <1>0, <1>3, <1>4 DEF DeviceInv, TaskIsKnown, WorkersKey
<1> QED BY <1>a, <1>4, <1>5, <1>6, <1>7, <1>8, <1>9 DEF DeviceInv

LEMMA DeviceVerifyKeeps == DeviceInv /\ Device!Verify => DeviceInv'
<1> SUFFICES ASSUME DeviceInv, Device!Verify PROVE DeviceInv'
  OBVIOUS
<1>a. DeviceTyped /\ DeviceTyped'
  BY DeviceVerifyTyped DEF DeviceInv
<1>0. /\ UNCHANGED <<core, profile, device_applied, deploy, device_live, device_task>> /\ worker.pc = "verify"
      /\ device_spent'.edits = device_spent.edits
  BY DEF Device!Verify
<1>1. CASE worker' = Device!Idle /\ (sync' = sync \/ sync' = Device!State("pending"))
  <2>1. worker'.pc = "idle" /\ worker'.old = sync /\ (sync' = sync \/ sync'.native = 0)
    BY <1>a, <1>1, IdleWorker, StateTyped
  <2> QED BY <1>a, <1>0, <2>1, QuitKeeps
<1>2. CASE worker' = [worker EXCEPT !.pc = "snapshot"] /\ sync' = sync
           /\ Device!Project(worker.base, profile, worker.view.settings) = worker.source
  <2>3. /\ worker'.pc = "snapshot" /\ worker'.source = worker.source
        /\ worker'.base = worker.base /\ worker'.view = worker.view /\ worker'.old = worker.old
    BY <1>a, <1>2 DEF DeviceTyped, WorkerRecords
  <2>4. NumbersGrow' /\ LiveIsReceived' /\ PairOk(sync.native, sync.key)' /\ PairOk(worker.old.native, worker.old.key)'
    BY <1>a, <1>0, <1>2, <2>3, MoveKeeps
  <2>5. ReservationIsOwn'
    BY <2>3 DEF ReservationIsOwn
  <2>6. SourceIsProjected'
    BY <1>0, <2>3 DEF DeviceInv, SourceIsProjected, SameStructure
  <2>7. CoreIsRight' /\ core = "mihomo"
    BY <1>0, <1>2, <2>3 DEF DeviceInv, CoreIsRight
  <2>8. TaskIsKnown'
    BY <1>0, <1>2, <2>3, <2>4, <2>7 DEF DeviceInv, TaskIsKnown, WorkersKey
  <2>9. DownloadIsExact'
    <3>1. worker.view.settings.library /\ worker.todo = {}
      BY <1>0 DEF DeviceInv, SourceIsProjected, DownloadIsExact
    <3>2. worker.base \in Known /\ profile \in Known /\ worker.view.settings \in Device!Scopes /\ device_live \in Known
      BY <1>a DEF DeviceTyped, WorkerRecords
    <3>0. Device!Project(worker.base, profile, worker.view.settings).content = profile.content
      BY <3>1, <3>2, ProjectTyped
    <3>3. worker.source.content = profile.content
      BY <1>2, <3>0
    <3>4. device_applied.id = worker.view.applied => \A l \in Lists : device_live.content[l] = profile.content[l]
      BY <1>0, <3>1, <3>3 DEF DeviceInv, DownloadIsExact, Downloaded
    <3>5. device_live.content \in [Lists -> 0..device_spent.edits] /\ profile.content \in [Lists -> 0..device_spent.edits]
      BY <3>2 DEF Known, Sources
    <3>6. device_applied.id = worker.view.applied => device_live.content = worker.source.content
      BY <3>3, <3>4, <3>5
    <3> QED BY <1>0, <2>3, <3>6 DEF DownloadIsExact
  <2> QED BY <1>a, <2>4, <2>5, <2>6, <2>7, <2>8, <2>9 DEF DeviceInv
<1> QED BY <1>1, <1>2 DEF Device!Verify, Device!Quit, Device!EndWith

LEMMA DeviceSnapshotKeeps == DeviceInv /\ Device!Snapshot => DeviceInv'
<1> SUFFICES ASSUME DeviceInv, Device!Snapshot PROVE DeviceInv'
  OBVIOUS
<1>a. DeviceTyped /\ DeviceTyped'
  BY DeviceSnapshotTyped DEF DeviceInv
<1>0. /\ UNCHANGED <<core, profile, device_applied, deploy, device_live, device_task>> /\ worker.pc = "snapshot"
      /\ device_spent'.edits = device_spent.edits /\ sync' = sync
  BY DEF Device!Snapshot
<1>3. /\ worker'.pc = "advance" /\ worker'.source = worker.source
      /\ worker'.base = worker.base /\ worker'.view = worker.view /\ worker'.old = worker.old
  BY <1>a, <1>0 DEF DeviceTyped, WorkerRecords, Device!Snapshot
<1>4. NumbersGrow' /\ LiveIsReceived' /\ PairOk(sync.native, sync.key)' /\ PairOk(worker.old.native, worker.old.key)'
  BY <1>a, <1>0, <1>3, MoveKeeps
<1>5. ReservationIsOwn'
  BY <1>3 DEF ReservationIsOwn
<1>9. DownloadIsExact'
  BY <1>0, <1>3 DEF DeviceInv, DownloadIsExact
<1>6. SourceIsProjected'
  BY <1>0, <1>3 DEF DeviceInv, SourceIsProjected, SameStructure
<1>7. CoreIsRight'
  BY <1>0, <1>3 DEF DeviceInv, CoreIsRight
<1>8. TaskIsKnown'
  BY <1>0, <1>3, <1>4 DEF DeviceInv, TaskIsKnown, WorkersKey
<1> QED BY <1>a, <1>4, <1>5, <1>6, <1>7, <1>8, <1>9 DEF DeviceInv

LEMMA DevicePrepareKeeps == DeviceInv /\ Device!Prepare => DeviceInv'
<1> SUFFICES ASSUME DeviceInv, Device!Prepare PROVE DeviceInv'
  OBVIOUS
<1>a. DeviceTyped /\ DeviceTyped'
  BY DevicePrepareTyped DEF DeviceInv
<1>0. /\ UNCHANGED <<core, profile, device_applied, deploy, device_live, device_task>> /\ worker.pc = "prepare"
      /\ device_spent'.edits = device_spent.edits /\ sync' = sync /\ device_task.status # "running"
  BY DEF Device!Prepare, Device!AgentFree
<1>3. /\ worker'.pc = "publish" /\ worker'.source = worker.source /\ worker'.snap = device_live
      /\ worker'.base = worker.base /\ worker'.view = worker.view /\ worker'.old = worker.old
  BY <1>a, <1>0 DEF DeviceTyped, WorkerRecords, Device!Prepare
<1>4. NumbersGrow' /\ LiveIsReceived' /\ PairOk(sync.native, sync.key)' /\ PairOk(worker.old.native, worker.old.key)'
  BY <1>a, <1>0, <1>3, MoveKeeps
<1>5. ReservationIsOwn'
  BY <1>0, <1>3 DEF DeviceInv, ReservationIsOwn
<1>9. DownloadIsExact'
  BY <1>0, <1>3 DEF DeviceInv, DownloadIsExact
<1>6. SourceIsProjected'
  BY <1>0, <1>3 DEF DeviceInv, SourceIsProjected, SameStructure
<1>7. CoreIsRight'
  BY <1>0, <1>3 DEF DeviceInv, CoreIsRight
<1>8. TaskIsKnown'
  BY <1>0, <1>3, <1>4 DEF DeviceInv, TaskIsKnown, WorkersKey
<1> QED BY <1>a, <1>4, <1>5, <1>6, <1>7, <1>8, <1>9 DEF DeviceInv

(* What is needed for a download number and its key to stay true.                                 *)
(* Both pairs the panel remembers stay true when every pair does.                                 *)
LEMMA DeviceEditProfileKeeps == ~TakenBackLate /\ DeviceInv /\ Device!EditProfile => DeviceInv'
<1> SUFFICES ASSUME ~TakenBackLate, DeviceInv, Device!EditProfile PROVE DeviceInv'
  OBVIOUS
<1>a. DeviceTyped /\ DeviceTyped'
  BY DeviceEditProfileTyped DEF DeviceInv
<1>0. /\ UNCHANGED <<core, device_applied, deploy, device_live, device_task, sync, worker>>
      /\ device_spent'.edits = device_spent.edits + 1 /\ device_spent.edits \in Nat
  BY <1>a DEF DeviceTyped, Device!EditProfile
<1>1. ReceiptKeys \subseteq ReceiptKeys'
  BY <1>0, RecordsGrow
<1>2. ASSUME core = "oxidns" \/ sync.status = "running", NEW s \in Known, NEW l \in Lists, Downloaded(l, s)
      PROVE  Downloaded(l, s)'
  <2>0. s.content[l] \in 0..device_spent.edits
    BY DEF Known, Sources
  <2>1. CASE profile'.content = profile.content
    BY <1>0, <1>2, <2>1 DEF Downloaded
  <2>2. CASE \E m \in Lists : profile' = [profile EXCEPT !.content[m] = device_spent.edits + 1]
    <3> PICK m \in Lists : profile' = [profile EXCEPT !.content[m] = device_spent.edits + 1]
      BY <2>2
    <3>1. profile'.content = [profile.content EXCEPT ![m] = device_spent.edits + 1] /\ profile.content \in [Lists -> Nat]
      BY <1>a DEF DeviceTyped, Known, Sources
    <3>2. CASE l = m
      BY <1>0, <2>0, <3>1, <3>2 DEF Downloaded
    <3>3. CASE l # m
      BY <1>0, <1>2, <3>1, <3>3 DEF Downloaded
    <3> QED BY <3>2, <3>3
  <2>3. profile'.content = profile.content \/ \E m \in Lists : profile' = [profile EXCEPT !.content[m] = device_spent.edits + 1]
    <3>1. \A m \in Lists : Device!Returned(m) = {}
      BY <1>2 DEF Device!Returned
    <3>2. CASE \E f \in {"sets", "rules", "other"} : profile' = [profile EXCEPT ![f] = device_spent.edits + 1]
      <4> PICK f \in {"sets", "rules", "other"} : profile' = [profile EXCEPT ![f] = device_spent.edits + 1]
        BY <3>2
      <4>1. profile'.content = profile.content
        BY <1>a DEF DeviceTyped, Known, Sources
      <4> QED BY <4>1
    <3> QED BY <3>1, <3>2 DEF Device!EditProfile
  <2> QED BY <2>1, <2>2, <2>3
<1>3. NumbersGrow'
  BY <1>0 DEF DeviceInv, NumbersGrow, Past, Open
<1>4. LiveIsReceived'
  BY <1>0 DEF DeviceInv, LiveIsReceived, SameStructure
<1>5. ReservationIsOwn' /\ CoreIsRight'
  BY <1>0 DEF DeviceInv, ReservationIsOwn, CoreIsRight
<1>6. SourceIsProjected'
  BY <1>0 DEF DeviceInv, SourceIsProjected, SameStructure
<1>7. ASSUME NEW n \in Nat, NEW k, PairOk(n, k), n # 0 => core = "oxidns" PROVE PairOk(n, k)'
  <2>1. ASSUME n # 0, k \in ReceiptKeys, NEW l \in Lists, Downloaded(l, k[1]) PROVE Downloaded(l, k[1])'
    <3>1. k[1] \in Known
      BY <2>1 DEF ReceiptKeys
    <3> QED BY <1>2, <1>7, <2>1, <3>1
  <2>2. Past(k[3]) => Past(k[3])'
    BY <1>0 DEF Past, Open
  <2>3. device_task'.id >= device_task.id
    BY <1>0, <1>a DEF DeviceTyped, TaskRecords
  <2>4. SameStructure(device_applied'.source, device_applied.source)
    BY <1>0 DEF SameStructure
  <2>5. n # 0 => n <= device_task'.id /\ k \in ReceiptKeys' /\ Past(k[3])' /\ k \in ReceiptKeys
    BY <1>0, <1>1, <1>7, <2>2 DEF PairOk
  <2>6. n # 0 /\ k[3] = device_applied'.id => SameStructure(k[1], device_applied'.source)
    BY <1>0, <1>7 DEF PairOk
  <2>7. ASSUME n # 0, k[3] = device_applied'.id, n = device_task'.id, device_task'.status \in {"running", "succeeded"},
               NEW l \in Lists \ device_task'.left
        PROVE  Downloaded(l, k[1])'
    <3>1. Downloaded(l, k[1])
      BY <1>0, <1>7, <2>7 DEF PairOk
    <3> QED BY <2>1, <2>5, <2>7, <3>1
  <2> QED BY <2>5, <2>6, <2>7 DEF PairOk
<1>8. TaskIsKnown'
  <2>1. PICK n, k : n = sync.native /\ k = sync.key /\ n \in Nat
    BY <1>a DEF DeviceTyped, SyncRecords
  <2>2. PICK n2, k2 : n2 = worker.old.native /\ k2 = worker.old.key /\ n2 \in Nat
    BY <1>a DEF DeviceTyped, WorkerRecords, SyncRecords
  <2>3. (n # 0 => core = "oxidns") /\ (n2 # 0 => core = "oxidns")
    BY <1>a, <2>1, <2>2 DEF DeviceInv, DeviceTyped, CoreIsRight
  <2>4. PairOk(n, k)'
    BY <1>7, <2>1, <2>3 DEF DeviceInv, TaskIsKnown
  <2>5. worker.pc # "idle" => PairOk(n2, k2)'
    BY <1>7, <2>2, <2>3 DEF DeviceInv, TaskIsKnown
  <2>6. PairOk(sync.native, sync.key)' /\ (worker'.pc # "idle" => PairOk(worker.old.native, worker.old.key)')
    BY <1>0, <2>1, <2>2, <2>4, <2>5
  <2> QED BY <1>0, <2>6 DEF DeviceInv, TaskIsKnown, WorkersKey
<1>9. DownloadIsExact'
  <2>1. ASSUME worker.pc \in {"put", "verify"}, device_applied.id = worker.view.applied, NEW l \in Lists \ worker.todo
        PROVE  Downloaded(l, worker.source)'
    <3>1. PICK s \in Known : s = worker.source
      BY <1>a DEF DeviceTyped, WorkerRecords
    <3>2. Downloaded(l, s) /\ sync.status = "running"
      BY <2>1, <3>1 DEF DeviceInv, DownloadIsExact, CoreIsRight
    <3>3. Downloaded(l, s)'
      BY <1>2, <2>1, <3>2
    <3> QED BY <1>0, <3>1, <3>3
  <2> QED BY <1>0, <2>1 DEF DeviceInv, DownloadIsExact
<1> QED BY <1>a, <1>3, <1>4, <1>5, <1>6, <1>8, <1>9 DEF DeviceInv

LEMMA DeviceReleaseBeginsKeeps == DeviceInv /\ Device!ReleaseBegins => DeviceInv'
<1> SUFFICES ASSUME DeviceInv, Device!ReleaseBegins PROVE DeviceInv'
  OBVIOUS
<1>a. DeviceTyped /\ DeviceTyped'
  BY DeviceReleaseBeginsTyped DEF DeviceInv
<1>0. /\ UNCHANGED <<core, profile, device_applied, device_live, device_task, sync, worker>> /\ ~Open
      /\ device_spent'.edits = device_spent.edits /\ deploy'.id = Device!NextId /\ deploy'.status = "running"
  BY <1>a DEF DeviceTyped, Device!ReleaseBegins, Open
<1>1. /\ deploy'.id > deploy.id /\ deploy'.id > device_applied.id /\ deploy.id \in Nat /\ device_applied.id \in Nat /\ deploy'.id \in Nat
      /\ worker.view.applied \in Nat
  BY <1>0, <1>a, NextNumber DEF DeviceTyped, DeployRecords, WorkerRecords
<1>2. ASSUME NEW m \in Nat, Past(m) PROVE Past(m)'
  BY <1>0, <1>1, <1>2 DEF Past
<1>3. NumbersGrow'
  BY <1>0, <1>1, <1>2 DEF DeviceInv, NumbersGrow, Open
<1>4. LiveIsReceived'
  BY <1>0 DEF DeviceInv, LiveIsReceived, SameStructure, Open, Device!Terminal
<1>5. ReservationIsOwn' /\ CoreIsRight'
  BY <1>0 DEF DeviceInv, ReservationIsOwn, CoreIsRight, Open, Device!Terminal
<1>6. SourceIsProjected' /\ DownloadIsExact'
  BY <1>0 DEF DeviceInv, SourceIsProjected, SameStructure, DownloadIsExact, Downloaded
<1>7. ASSUME NEW n \in Nat, NEW k, PairOk(n, k) PROVE PairOk(n, k)'
  <2>1. ReceiptKeys' = ReceiptKeys
    BY <1>0, RecordsStay
  <2>2. n # 0 => k[3] \in Nat
    BY <1>7 DEF PairOk, ReceiptKeys
  <2> QED BY <1>0, <1>2, <1>7, <2>1, <2>2 DEF PairOk, Downloaded
<1>8. TaskIsKnown'
  <2>1. PICK n, k : n = sync.native /\ k = sync.key /\ n \in Nat
    BY <1>a DEF DeviceTyped, SyncRecords
  <2>2. PICK n2, k2 : n2 = worker.old.native /\ k2 = worker.old.key /\ n2 \in Nat
    BY <1>a DEF DeviceTyped, WorkerRecords, SyncRecords
  <2>4. PairOk(n, k)'
    BY <1>7, <2>1 DEF DeviceInv, TaskIsKnown
  <2>5. worker.pc # "idle" => PairOk(n2, k2)'
    BY <1>7, <2>2 DEF DeviceInv, TaskIsKnown
  <2>6. PairOk(sync.native, sync.key)' /\ (worker'.pc # "idle" => PairOk(worker.old.native, worker.old.key)')
    BY <1>0, <2>1, <2>2, <2>4, <2>5
  <2> QED BY <1>0, <2>6 DEF DeviceInv, TaskIsKnown, WorkersKey
<1> QED BY <1>a, <1>3, <1>4, <1>5, <1>6, <1>8 DEF DeviceInv

LEMMA DeviceReleaseEndsKeeps == DeviceInv /\ Device!ReleaseEnds => DeviceInv'
<1> SUFFICES ASSUME DeviceInv, Device!ReleaseEnds PROVE DeviceInv'
  OBVIOUS
<1>a. DeviceTyped /\ DeviceTyped'
  BY DeviceReleaseEndsTyped DEF DeviceInv
<1>0. /\ UNCHANGED <<core, profile, device_task, sync, worker>> /\ Open
      /\ device_spent'.edits = device_spent.edits /\ deploy'.id = deploy.id /\ deploy'.status \in {"succeeded", "failed"}
      /\ deploy.status = "running" /\ ~deploy.auto
  BY <1>a DEF DeviceTyped, DeployRecords, Device!ReleaseEnds, Open, Device!Terminal
<1>9. \/ /\ device_applied'.id = deploy.id /\ device_applied'.source = deploy.source /\ device_live' = deploy.source
      \/ UNCHANGED <<device_applied, device_live>>
  BY DEF Device!ReleaseEnds
<1>1. /\ deploy.id \in Nat /\ device_applied.id \in Nat /\ worker.view.applied \in Nat
  BY <1>a DEF DeviceTyped, DeployRecords, WorkerRecords
<1>2. ASSUME NEW m \in Nat, Past(m) PROVE Past(m)' /\ m < deploy.id
  BY <1>0, <1>1, <1>2 DEF Past, Open, Device!Terminal
<1>3. NumbersGrow'
  BY <1>0, <1>1, <1>2, <1>9 DEF DeviceInv, NumbersGrow, Open, Device!Terminal
<1>4. LiveIsReceived'
  BY <1>0, <1>9 DEF DeviceInv, LiveIsReceived, SameStructure
<1>5. ReservationIsOwn' /\ CoreIsRight'
  BY <1>0 DEF DeviceInv, ReservationIsOwn, CoreIsRight
<1>6. SourceIsProjected'
  BY <1>0 DEF DeviceInv, SourceIsProjected, SameStructure
<1>b. DownloadIsExact'
  <2>1. worker.pc # "idle" => worker.view.applied < deploy.id
    BY <1>1, <1>2 DEF DeviceInv, NumbersGrow
  <2> QED BY <1>0, <1>1, <1>9, <2>1 DEF DeviceInv, DownloadIsExact, Downloaded
<1>7. ASSUME NEW n \in Nat, NEW k, PairOk(n, k) PROVE PairOk(n, k)'
  <2>1. ReceiptKeys' = ReceiptKeys
    BY <1>0, RecordsStay
  <2>2. n # 0 => k[3] \in Nat /\ Past(k[3])
    BY <1>7 DEF PairOk, ReceiptKeys
  <2>3. n # 0 => Past(k[3])' /\ k[3] < deploy.id
    BY <1>2, <2>2
  <2>4. CASE UNCHANGED <<device_applied, device_live>>
    BY <1>0, <1>7, <2>1, <2>3, <2>4 DEF PairOk, Downloaded
  <2>5. CASE device_applied'.id = deploy.id
    BY <1>0, <1>1, <1>7, <2>1, <2>2, <2>3, <2>5 DEF PairOk
  <2> QED BY <1>9, <2>4, <2>5
<1>8. TaskIsKnown'
  <2>1. PICK n, k : n = sync.native /\ k = sync.key /\ n \in Nat
    BY <1>a DEF DeviceTyped, SyncRecords
  <2>2. PICK n2, k2 : n2 = worker.old.native /\ k2 = worker.old.key /\ n2 \in Nat
    BY <1>a DEF DeviceTyped, WorkerRecords, SyncRecords
  <2>4. PairOk(n, k)'
    BY <1>7, <2>1 DEF DeviceInv, TaskIsKnown
  <2>5. worker.pc # "idle" => PairOk(n2, k2)'
    BY <1>7, <2>2 DEF DeviceInv, TaskIsKnown
  <2>6. PairOk(sync.native, sync.key)' /\ (worker'.pc # "idle" => PairOk(worker.old.native, worker.old.key)')
    BY <1>0, <2>1, <2>2, <2>4, <2>5
  <2> QED BY <1>0, <2>6 DEF DeviceInv, TaskIsKnown, WorkersKey
<1> QED BY <1>a, <1>3, <1>4, <1>5, <1>6, <1>8, <1>b DEF DeviceInv

LEMMA DeviceForgetKeeps == DeviceInv /\ Device!Forget => DeviceInv'
<1> SUFFICES ASSUME DeviceInv, Device!Forget PROVE DeviceInv'
  OBVIOUS
<1>a. DeviceTyped /\ DeviceTyped'
  BY DeviceForgetTyped DEF DeviceInv
<1>0. /\ UNCHANGED <<core, profile, device_live, deploy, device_task, sync, worker>> /\ ~Open
      /\ device_spent'.edits = device_spent.edits /\ device_applied'.id = 0
  BY <1>a DEF DeviceTyped, Device!Forget, Open, Device!Trouble
<1>1. /\ deploy.id \in Nat /\ worker.view.applied \in Nat
  BY <1>a DEF DeviceTyped, DeployRecords, WorkerRecords
<1>3. NumbersGrow'
  BY <1>0, <1>1 DEF DeviceInv, NumbersGrow, Open, Past
<1>4. LiveIsReceived'
  BY <1>0 DEF DeviceInv, LiveIsReceived, SameStructure
<1>5. ReservationIsOwn' /\ CoreIsRight'
  BY <1>0 DEF DeviceInv, ReservationIsOwn, CoreIsRight
<1>6. SourceIsProjected'
  BY <1>0 DEF DeviceInv, SourceIsProjected, SameStructure
<1>b. DownloadIsExact'
  BY <1>0 DEF DeviceInv, DownloadIsExact, Downloaded, NumbersGrow, Past
<1>7. ASSUME NEW n \in Nat, NEW k, PairOk(n, k) PROVE PairOk(n, k)'
  <2>1. ReceiptKeys' = ReceiptKeys
    BY <1>0, RecordsStay
  <2> QED BY <1>0, <1>7, <2>1 DEF PairOk, Past, Open
<1>8. TaskIsKnown'
  <2>1. PICK n, k : n = sync.native /\ k = sync.key /\ n \in Nat
    BY <1>a DEF DeviceTyped, SyncRecords
  <2>2. PICK n2, k2 : n2 = worker.old.native /\ k2 = worker.old.key /\ n2 \in Nat
    BY <1>a DEF DeviceTyped, WorkerRecords, SyncRecords
  <2>4. PairOk(n, k)'
    BY <1>7, <2>1 DEF DeviceInv, TaskIsKnown
  <2>5. worker.pc # "idle" => PairOk(n2, k2)'
    BY <1>7, <2>2 DEF DeviceInv, TaskIsKnown
  <2>6. PairOk(sync.native, sync.key)' /\ (worker'.pc # "idle" => PairOk(worker.old.native, worker.old.key)')
    BY <1>0, <2>1, <2>2, <2>4, <2>5
  <2> QED BY <1>0, <2>6 DEF DeviceInv, TaskIsKnown, WorkersKey
<1> QED BY <1>a, <1>3, <1>4, <1>5, <1>6, <1>8, <1>b DEF DeviceInv

LEMMA DevicePolledKeeps == DeviceInv /\ Device!Polled => DeviceInv'
<1> SUFFICES ASSUME DeviceInv, Device!Polled PROVE DeviceInv'
  OBVIOUS
<1>a. DeviceTyped /\ DeviceTyped'
  BY DevicePolledTyped DEF DeviceInv
<1>0. /\ UNCHANGED <<core, profile, device_live, device_task, sync, worker>> /\ Open
      /\ device_spent'.edits = device_spent.edits /\ deploy'.id = deploy.id /\ deploy'.status \in Device!Terminal
      /\ worker.pc \notin {"prepare", "publish"}
  BY <1>a DEF DeviceTyped, DeployRecords, Device!Polled, Open, Device!Terminal
<1>9. \/ /\ device_applied'.id = deploy.id /\ device_applied'.source = deploy.source /\ deploy.status = "unknown"
      \/ UNCHANGED <<device_applied>> /\ deploy.status = "running"
  BY DEF Device!Polled
<1>1. /\ deploy.id \in Nat /\ device_applied.id \in Nat /\ worker.view.applied \in Nat
  BY <1>a DEF DeviceTyped, DeployRecords, WorkerRecords
<1>2. ASSUME NEW m \in Nat, Past(m) PROVE Past(m)' /\ m < deploy.id
  BY <1>0, <1>1, <1>2 DEF Past, Open, Device!Terminal
<1>3. NumbersGrow'
  BY <1>0, <1>1, <1>2, <1>9 DEF DeviceInv, NumbersGrow, Open, Device!Terminal
<1>4. LiveIsReceived'
  BY <1>0, <1>9 DEF DeviceInv, LiveIsReceived, SameStructure, Device!Terminal
<1>5. ReservationIsOwn' /\ CoreIsRight'
  BY <1>0 DEF DeviceInv, ReservationIsOwn, CoreIsRight
<1>6. SourceIsProjected'
  BY <1>0 DEF DeviceInv, SourceIsProjected, SameStructure
<1>b. DownloadIsExact'
  <2>1. worker.pc # "idle" => worker.view.applied < deploy.id
    BY <1>1, <1>2 DEF DeviceInv, NumbersGrow
  <2> QED BY <1>0, <1>1, <1>9, <2>1 DEF DeviceInv, DownloadIsExact, Downloaded
<1>7. ASSUME NEW n \in Nat, NEW k, PairOk(n, k) PROVE PairOk(n, k)'
  <2>1. ReceiptKeys' = ReceiptKeys
    BY <1>0, RecordsStay
  <2>2. n # 0 => k[3] \in Nat /\ Past(k[3])
    BY <1>7 DEF PairOk, ReceiptKeys
  <2>3. n # 0 => Past(k[3])' /\ k[3] < deploy.id
    BY <1>2, <2>2
  <2>4. CASE UNCHANGED device_applied
    BY <1>0, <1>7, <2>1, <2>3, <2>4 DEF PairOk, Downloaded
  <2>5. CASE device_applied'.id = deploy.id
    BY <1>0, <1>1, <1>7, <2>1, <2>2, <2>3, <2>5 DEF PairOk
  <2> QED BY <1>9, <2>4, <2>5
<1>8. TaskIsKnown'
  <2>1. PICK n, k : n = sync.native /\ k = sync.key /\ n \in Nat
    BY <1>a DEF DeviceTyped, SyncRecords
  <2>2. PICK n2, k2 : n2 = worker.old.native /\ k2 = worker.old.key /\ n2 \in Nat
    BY <1>a DEF DeviceTyped, WorkerRecords, SyncRecords
  <2>4. PairOk(n, k)'
    BY <1>7, <2>1 DEF DeviceInv, TaskIsKnown
  <2>5. worker.pc # "idle" => PairOk(n2, k2)'
    BY <1>7, <2>2 DEF DeviceInv, TaskIsKnown
  <2>6. PairOk(sync.native, sync.key)' /\ (worker'.pc # "idle" => PairOk(worker.old.native, worker.old.key)')
    BY <1>0, <2>1, <2>2, <2>4, <2>5
  <2> QED BY <1>0, <2>6 DEF DeviceInv, TaskIsKnown, WorkersKey
<1> QED BY <1>a, <1>3, <1>4, <1>5, <1>6, <1>8, <1>b DEF DeviceInv

LEMMA DeviceTaskStepKeeps == DeviceInv /\ Device!TaskStep => DeviceInv'
<1> SUFFICES ASSUME DeviceInv, Device!TaskStep PROVE DeviceInv'
  OBVIOUS
<1>a. DeviceTyped /\ DeviceTyped'
  BY DeviceTaskStepTyped DEF DeviceInv
<1>0. /\ UNCHANGED <<core, profile, device_applied, deploy, sync, worker>> /\ device_task.status = "running"
      /\ device_spent'.edits = device_spent.edits /\ device_task'.id = device_task.id
  BY <1>a DEF DeviceTyped, TaskRecords, Device!TaskStep, Device!Trouble
<1>1. core = "oxidns"
  BY <1>a, <1>0 DEF DeviceInv, DeviceTyped, CoreIsRight
<1>2. \/ UNCHANGED device_live /\ device_task'.status = "failed"
      \/ \E l \in device_task.left :
           /\ device_live' = [device_live EXCEPT !.content[l] = profile.content[l]]
           /\ device_task'.left = device_task.left \ {l}
           /\ device_task'.status = IF device_task.left = {l} THEN "succeeded" ELSE "running"
  BY <1>a DEF DeviceTyped, TaskRecords, Device!TaskStep
<1>c. /\ SameStructure(device_live', device_live)
      /\ device_task'.status = "succeeded" => device_task'.left = {}
      /\ device_task'.status # "failed" =>
           \A m \in Lists \ device_task'.left : device_live'.content[m] = profile.content[m] \/ (m \notin device_task.left /\ device_live'.content[m] = device_live.content[m])
  <2>1. CASE UNCHANGED device_live /\ device_task'.status = "failed"
    BY <2>1 DEF SameStructure
  <2>2. ASSUME NEW l \in device_task.left, device_live' = [device_live EXCEPT !.content[l] = profile.content[l]],
           device_task'.left = device_task.left \ {l}, device_task'.status = IF device_task.left = {l} THEN "succeeded" ELSE "running"
        PROVE  /\ SameStructure(device_live', device_live)
               /\ device_task'.status = "succeeded" => device_task'.left = {}
               /\ device_task'.status # "failed" =>
                    \A m \in Lists \ device_task'.left : device_live'.content[m] = profile.content[m] \/ (m \notin device_task.left /\ device_live'.content[m] = device_live.content[m])
    <3>1. l \in Lists
      BY <1>a DEF DeviceTyped, TaskRecords
    <3>2. device_live'.content = [device_live.content EXCEPT ![l] = profile.content[l]] /\ SameStructure(device_live', device_live)
          /\ device_live.content \in [Lists -> Nat]
      BY <1>a, <2>2, <3>1, ContentTyped DEF DeviceTyped
    <3>3. device_task'.status = "succeeded" => device_task'.left = {}
      BY <2>2
    <3>4. ASSUME NEW m \in Lists \ device_task'.left
          PROVE device_live'.content[m] = profile.content[m] \/ (m \notin device_task.left /\ device_live'.content[m] = device_live.content[m])
      BY <2>2, <3>1, <3>2, <3>4
    <3> QED BY <3>2, <3>3, <3>4
  <2> QED BY <1>2, <2>1, <2>2
<1>3. NumbersGrow'
  BY <1>0 DEF DeviceInv, NumbersGrow, Open, Past
<1>4. LiveIsReceived'
  BY <1>0, <1>c DEF DeviceInv, LiveIsReceived, SameStructure
<1>5. ReservationIsOwn' /\ CoreIsRight'
  BY <1>0, <1>1 DEF DeviceInv, ReservationIsOwn, CoreIsRight
<1>6. SourceIsProjected'
  BY <1>0 DEF DeviceInv, SourceIsProjected, SameStructure
<1>b. DownloadIsExact'
  BY <1>0, <1>1 DEF DeviceInv, DownloadIsExact, CoreIsRight
<1>7. ASSUME NEW n \in Nat, NEW k, PairOk(n, k) PROVE PairOk(n, k)'
  <2>1. ReceiptKeys' = ReceiptKeys
    BY <1>0, RecordsStay
  <2>2. n # 0 => Past(k[3])'
    BY <1>0, <1>7 DEF PairOk, Past, Open
  <2>3. ASSUME n # 0, k[3] = device_applied'.id, n = device_task'.id, device_task'.status \in {"running", "succeeded"},
               NEW l \in Lists \ device_task'.left
        PROVE  Downloaded(l, k[1])'
    <3>1. device_live'.content[l] = profile.content[l] \/ (l \notin device_task.left /\ device_live'.content[l] = device_live.content[l])
      BY <1>c, <2>3
    <3>2. l \notin device_task.left => Downloaded(l, k[1])
      BY <1>0, <1>7, <2>3 DEF PairOk
    <3> QED BY <1>0, <3>1, <3>2 DEF Downloaded
  <2> QED BY <1>0, <1>7, <2>1, <2>2, <2>3 DEF PairOk
<1>8. TaskIsKnown'
  <2>1. PICK n, k : n = sync.native /\ k = sync.key /\ n \in Nat
    BY <1>a DEF DeviceTyped, SyncRecords
  <2>2. PICK n2, k2 : n2 = worker.old.native /\ k2 = worker.old.key /\ n2 \in Nat
    BY <1>a DEF DeviceTyped, WorkerRecords, SyncRecords
  <2>4. PairOk(n, k)'
    BY <1>7, <2>1 DEF DeviceInv, TaskIsKnown
  <2>5. worker.pc # "idle" => PairOk(n2, k2)'
    BY <1>7, <2>2 DEF DeviceInv, TaskIsKnown
  <2>6. PairOk(sync.native, sync.key)' /\ (worker'.pc # "idle" => PairOk(worker.old.native, worker.old.key)')
    BY <1>0, <2>1, <2>2, <2>4, <2>5
  <2> QED BY <1>0, <1>c, <2>6 DEF DeviceInv, TaskIsKnown, WorkersKey
<1> QED BY <1>a, <1>3, <1>4, <1>5, <1>6, <1>8, <1>b DEF DeviceInv

LEMMA DeviceAdvanceKeeps == DeviceInv /\ Device!Advance => DeviceInv'
<1> SUFFICES ASSUME DeviceInv, Device!Advance PROVE DeviceInv'
  OBVIOUS
<1>a. DeviceTyped /\ DeviceTyped'
  BY DeviceAdvanceTyped DEF DeviceInv
<1>0. /\ UNCHANGED <<core, profile, device_live, deploy, device_task>> /\ worker.pc = "advance"
      /\ device_spent'.edits = device_spent.edits /\ worker'.pc = "idle" /\ worker'.old = sync
      /\ sync' = sync \/ sync'.native = 0
  BY <1>a, IdleWorker, StateTyped DEF Device!Advance, Device!Quit, Device!Acknowledge, Device!EndWith
<1>1. CASE UNCHANGED device_applied
  BY <1>a, <1>0, <1>1, QuitKeeps
<1>2. CASE Device!Unchanged(0) /\ device_applied' = [device_applied EXCEPT !.source = worker.source]
  <2>1. /\ device_applied'.id = device_applied.id /\ device_applied'.source = worker.source /\ device_applied.id = worker.view.applied
    BY <1>a, <1>2 DEF DeviceTyped, Device!Unchanged
  <2>2. SameStructure(worker.source, device_applied.source)
    BY <1>0, <2>1 DEF DeviceInv, SourceIsProjected, NumbersGrow, SameStructure
  <2>3. NumbersGrow'
    BY <1>0, <2>1 DEF DeviceInv, NumbersGrow, Past, Open
  <2>4. LiveIsReceived'
    BY <1>0, <2>1, <2>2 DEF DeviceInv, LiveIsReceived, SameStructure
  <2>5. ReservationIsOwn' /\ SourceIsProjected' /\ DownloadIsExact'
    BY <1>0 DEF ReservationIsOwn, SourceIsProjected, DownloadIsExact
  <2>6. CoreIsRight'
    BY <1>0 DEF DeviceInv, CoreIsRight
  <2>7. TaskIsKnown'
    <3>1. PICK n, k : n = sync'.native /\ k = sync'.key /\ n \in Nat
      BY <1>a DEF DeviceTyped, SyncRecords
    <3>2. PairOk(n, k)
      BY <1>0, <3>1 DEF DeviceInv, TaskIsKnown, PairOk
    <3>3. ReceiptKeys' = ReceiptKeys
      BY <1>0, RecordsStay
    <3>4. PairOk(n, k)'
      BY <1>0, <2>1, <2>2, <3>2, <3>3 DEF PairOk, Past, Open, Downloaded, SameStructure
    <3>5. PairOk(sync.native, sync.key)'
      BY <3>1, <3>4
    <3> QED BY <1>0, <3>5 DEF DeviceInv, TaskIsKnown
  <2> QED BY <1>a, <2>3, <2>4, <2>5, <2>6, <2>7 DEF DeviceInv
<1> QED BY <1>1, <1>2 DEF Device!Advance, Device!Acknowledge

LEMMA DeviceAskKeeps == DeviceInv /\ Device!Ask => DeviceInv'
<1> SUFFICES ASSUME DeviceInv, Device!Ask PROVE DeviceInv'
  OBVIOUS
<1>a. DeviceTyped /\ DeviceTyped'
  BY DeviceAskTyped DEF DeviceInv
<1>0. /\ UNCHANGED <<core, profile, device_live, deploy, device_task>> /\ worker.pc = "ask"
      /\ device_spent'.edits = device_spent.edits
  BY DEF Device!Ask
<1> DEFINE key == <<worker.source, worker.view.settings, worker.view.applied>>
<1>1. PICK p \in SyncRecords, r \in SyncRecords :
        p = Device!State("pending") /\ p.native = 0 /\ r = Device!State("failed") /\ r.native = 0
  BY StateTyped
<1>2. \/ /\ worker' = Device!Idle /\ device_applied' = device_applied
         /\ \/ sync' \in {sync, Device!Failed, Device!State("idle"), Device!State("pending")}
            \/ sync' = [r EXCEPT !.force = TRUE, !.wait = "retry"]
            \/ sync' = [p EXCEPT !.key = key, !.wait = "notice", !.force = TRUE]
      \/ /\ worker' = Device!Idle /\ sync' = Device!State("idle") /\ Device!Unchanged(0)
         /\ device_applied' = [device_applied EXCEPT !.source = worker.base]
      \/ /\ worker' = [worker EXCEPT !.pc = "snapshot"] /\ sync' = sync /\ device_applied' = device_applied
         /\ worker.view.settings.library /\ device_task.id = worker.old.native /\ device_task.status = "succeeded"
         /\ key = worker.old.key /\ device_applied.id = worker.view.applied
  BY <1>1 DEF Device!Ask, Device!Quit, Device!Acknowledge, Device!EndWith
<1>3. CASE /\ worker' = Device!Idle /\ device_applied' = device_applied
           /\ \/ sync' \in {sync, Device!Failed, Device!State("idle"), Device!State("pending")}
              \/ sync' = [r EXCEPT !.force = TRUE, !.wait = "retry"]
              \/ sync' = [p EXCEPT !.key = key, !.wait = "notice", !.force = TRUE]
  <2>1. sync'.native = 0 \/ (sync'.native = sync.native /\ sync'.key = sync.key)
    <3> HIDE DEF key
    <3>1. sync \in SyncRecords
      BY <1>a DEF DeviceTyped
    <3>2. CASE sync' \in {sync, Device!Failed, Device!State("idle"), Device!State("pending")}
      BY <3>1, <3>2, FailedState, StateTyped
    <3>3. CASE sync' = [r EXCEPT !.force = TRUE, !.wait = "retry"] \/ sync' = [p EXCEPT !.key = key, !.wait = "notice", !.force = TRUE]
      BY <1>1, <3>3 DEF SyncRecords
    <3> QED BY <1>3, <3>2, <3>3
  <2>2. worker'.pc = "idle" /\ worker'.old = sync
    BY <1>a, <1>3, IdleWorker
  <2> QED BY <1>a, <1>0, <1>3, <2>1, <2>2, QuitKeeps
<1>4. CASE /\ worker' = Device!Idle /\ sync' = Device!State("idle") /\ Device!Unchanged(0)
           /\ device_applied' = [device_applied EXCEPT !.source = worker.base]
  <2>1. device_applied.source = worker.base
    BY <1>0, <1>4 DEF DeviceInv, NumbersGrow, Device!Unchanged
  <2>2. device_applied' = device_applied
    BY <1>a, <1>4, <2>1 DEF DeviceTyped
  <2>3. worker'.pc = "idle" /\ worker'.old = sync /\ sync'.native = 0
    BY <1>a, <1>4, IdleWorker, StateTyped
  <2> QED BY <1>a, <1>0, <2>2, <2>3, QuitKeeps
<1>5. CASE /\ worker' = [worker EXCEPT !.pc = "snapshot"] /\ sync' = sync /\ device_applied' = device_applied
           /\ worker.view.settings.library /\ device_task.id = worker.old.native /\ device_task.status = "succeeded"
           /\ key = worker.old.key /\ device_applied.id = worker.view.applied
  <2>1. /\ worker'.pc = "snapshot" /\ worker'.source = worker.source
        /\ worker'.base = worker.base /\ worker'.view = worker.view /\ worker'.old = worker.old
    BY <1>a, <1>5 DEF DeviceTyped, WorkerRecords
  <2>2. NumbersGrow' /\ LiveIsReceived' /\ PairOk(sync.native, sync.key)' /\ PairOk(worker.old.native, worker.old.key)'
    BY <1>a, <1>0, <1>5, <2>1, MoveKeeps
  <2>3. worker.old.native # 0 /\ PairOk(worker.old.native, worker.old.key) /\ core = "oxidns" /\ device_applied.source = worker.base
    BY <1>0, <1>5 DEF DeviceInv, TaskIsKnown, CoreIsRight, NumbersGrow
  <2>4. SameStructure(worker.source, worker.base)
    BY <1>5, <2>3 DEF PairOk
  <2>5. ReservationIsOwn'
    BY <2>1 DEF ReservationIsOwn
  <2>6. SourceIsProjected'
    BY <1>0, <1>5, <2>1, <2>4 DEF DeviceInv, SourceIsProjected, SameStructure
  <2>7. CoreIsRight' /\ DownloadIsExact'
    BY <1>0, <1>5, <2>1, <2>3 DEF DeviceInv, CoreIsRight, DownloadIsExact
  <2>8. TaskIsKnown'
    BY <1>0, <1>5, <2>1, <2>2, <2>3 DEF DeviceInv, TaskIsKnown, WorkersKey
  <2> QED BY <1>a, <2>2, <2>5, <2>6, <2>7, <2>8 DEF DeviceInv
<1> QED BY <1>2, <1>3, <1>4, <1>5

LEMMA DevicePutKeeps == DeviceInv /\ Device!Put => DeviceInv'
<1> SUFFICES ASSUME DeviceInv, Device!Put PROVE DeviceInv'
  OBVIOUS
<1>a. DeviceTyped /\ DeviceTyped'
  BY DevicePutTyped DEF DeviceInv
<1>0. /\ UNCHANGED <<core, profile, device_applied, deploy, device_task>> /\ worker.pc = "put" /\ sync' = sync
      /\ device_spent'.edits = device_spent.edits
  BY DEF Device!Put, Device!Quit
<1>1. CASE Device!Quit /\ UNCHANGED device_live
  <2>1. worker'.pc = "idle" /\ worker'.old = sync
    BY <1>a, <1>1, IdleWorker DEF Device!Quit
  <2> QED BY <1>a, <1>0, <1>1, <2>1, QuitKeeps
<1>2. ASSUME NEW l \in worker.todo, device_live' = [device_live EXCEPT !.content[l] = profile.content[l]],
             worker' = [worker EXCEPT !.todo = @ \ {l}]
      PROVE  DeviceInv'
  <2>1. l \in Lists
    BY <1>a DEF DeviceTyped, WorkerRecords
  <2>2. device_live'.content = [device_live.content EXCEPT ![l] = profile.content[l]] /\ SameStructure(device_live', device_live)
        /\ device_live.content \in [Lists -> Nat]
    BY <1>a, <1>2, <2>1, ContentTyped DEF DeviceTyped
  <2>3. /\ worker'.pc = "put" /\ worker'.source = worker.source /\ worker'.todo = worker.todo \ {l}
        /\ worker'.base = worker.base /\ worker'.view = worker.view /\ worker'.old = worker.old
    BY <1>a, <1>0, <1>2 DEF DeviceTyped, WorkerRecords
  <2>4. core = "mihomo" /\ sync.native = 0 /\ worker.old.native = 0
    BY <1>0 DEF DeviceInv, CoreIsRight
  <2>5. NumbersGrow'
    BY <1>0, <2>3 DEF DeviceInv, NumbersGrow, Past, Open
  <2>6. LiveIsReceived'
    BY <1>0, <2>2, <2>3 DEF DeviceInv, LiveIsReceived, SameStructure
  <2>7. ReservationIsOwn'
    BY <2>3 DEF ReservationIsOwn
  <2>8. SourceIsProjected'
    BY <1>0, <2>3 DEF DeviceInv, SourceIsProjected, SameStructure
  <2>9. CoreIsRight'
    BY <1>0, <2>3 DEF DeviceInv, CoreIsRight
  <2>10. TaskIsKnown'
    BY <1>0, <2>3, <2>4 DEF DeviceInv, TaskIsKnown, PairOk
  <2>11. DownloadIsExact'
    <3>1. ASSUME device_applied.id = worker.view.applied, NEW m \in Lists \ worker'.todo PROVE Downloaded(m, worker.source)'
      <4>1. CASE m = l
        BY <1>0, <2>2, <2>3, <3>1, <4>1 DEF Downloaded
      <4>2. CASE m # l
        <5>1. Downloaded(m, worker.source)
          BY <1>0, <2>3, <3>1, <4>2 DEF DeviceInv, DownloadIsExact
        <5> QED BY <1>0, <2>2, <2>3, <3>1, <4>2, <5>1 DEF Downloaded
      <4> QED BY <4>1, <4>2
    <3> QED BY <1>0, <2>3, <3>1 DEF DownloadIsExact
  <2> QED BY <1>a, <2>5, <2>6, <2>7, <2>8, <2>9, <2>10, <2>11 DEF DeviceInv
<1> QED BY <1>1, <1>2 DEF Device!Put

LEMMA DevicePostKeeps == DeviceInv /\ Device!Post => DeviceInv'
<1> SUFFICES ASSUME DeviceInv, Device!Post PROVE DeviceInv'
  OBVIOUS
<1>a. DeviceTyped /\ DeviceTyped'
  BY DevicePostTyped DEF DeviceInv
<1>0. /\ UNCHANGED <<core, profile, device_applied, deploy, device_live>> /\ worker.pc = "post"
      /\ device_spent'.edits = device_spent.edits /\ worker'.pc = "idle" /\ worker'.old = sync
      /\ device_task' = [id |-> device_task.id + 1, status |-> "running", left |-> Lists]
  BY <1>a, IdleWorker DEF Device!Post, Device!EndWith, Device!Trouble, DeviceTyped
<1>1. core = "oxidns" /\ sync.key = WorkersKey
  BY <1>0 DEF DeviceInv, CoreIsRight, TaskIsKnown
<1>2. device_task'.id = device_task.id + 1 /\ device_task'.status = "running" /\ device_task'.left = Lists /\ device_task.id \in Nat
  BY <1>a, <1>0 DEF DeviceTyped, TaskRecords
<1>3. NumbersGrow'
  BY <1>0 DEF DeviceInv, NumbersGrow, Open, Past
<1>4. LiveIsReceived'
  BY <1>0 DEF DeviceInv, LiveIsReceived, SameStructure
<1>5. ReservationIsOwn' /\ SourceIsProjected' /\ DownloadIsExact'
  BY <1>0 DEF ReservationIsOwn, SourceIsProjected, DownloadIsExact
<1>6. CoreIsRight'
  BY <1>0, <1>1 DEF CoreIsRight
<1>7. ReceiptKeys' = ReceiptKeys
  BY <1>0, RecordsStay
<1>8. PairOk(sync.native, sync.key)'
  <2>1. CASE sync' = [sync EXCEPT !.native = device_task.id + 1]
    <3>1. sync'.native = device_task.id + 1 /\ sync'.key = WorkersKey
      BY <1>a, <1>1, <2>1 DEF DeviceTyped, SyncRecords
    <3>2. PICK k : k = WorkersKey /\ k = sync'.key
      BY <3>1
    <3>3. k \in ReceiptKeys /\ k[1] = worker.source /\ k[3] = worker.view.applied
      BY <1>a, <3>2 DEF DeviceTyped, WorkerRecords, ReceiptKeys, WorkersKey
    <3>4. Past(k[3])'
      BY <1>0, <3>3 DEF DeviceInv, NumbersGrow, Past, Open
    <3>5. k[3] = device_applied.id => SameStructure(k[1], device_applied.source)
      BY <1>0, <3>3 DEF DeviceInv, NumbersGrow, SourceIsProjected
    <3>6. PICK n \in Nat : n = device_task.id + 1
      BY <1>2
    <3>7. PairOk(n, k)'
      BY <1>0, <1>2, <1>7, <3>3, <3>4, <3>5, <3>6 DEF PairOk
    <3> QED BY <3>1, <3>2, <3>6, <3>7
  <2>2. CASE sync' = Device!Failed
    <3>1. sync'.native = sync.native /\ sync'.key = sync.key
      BY <1>a, <2>2, FailedState DEF DeviceTyped
    <3>2. PICK n, k : n = sync.native /\ k = sync.key /\ n \in Nat
      BY <1>a DEF DeviceTyped, SyncRecords
    <3>3. PairOk(n, k)
      BY <3>2 DEF DeviceInv, TaskIsKnown
    <3>4. n # 0 => n <= device_task'.id /\ n # device_task'.id /\ Past(k[3])'
      BY <1>0, <1>2, <3>2, <3>3 DEF PairOk, Past, Open
    <3>5. PairOk(n, k)'
      BY <1>0, <1>7, <3>3, <3>4 DEF PairOk
    <3> QED BY <3>1, <3>2, <3>5
  <2> QED BY <2>1, <2>2 DEF Device!Post, Device!EndWith
<1>9. TaskIsKnown'
  BY <1>0, <1>2, <1>8 DEF TaskIsKnown
<1> QED BY <1>a, <1>3, <1>4, <1>5, <1>6, <1>9 DEF DeviceInv

LEMMA DeviceCallFailsKeeps == DeviceInv /\ Device!CallFails => DeviceInv'
<1> SUFFICES ASSUME DeviceInv, Device!CallFails PROVE DeviceInv'
  OBVIOUS
<1>a. DeviceTyped /\ DeviceTyped'
  BY DeviceCallFailsTyped DEF DeviceInv
<1>0. /\ UNCHANGED <<core, profile, device_applied, device_live, device_task>> /\ worker.pc # "idle"
      /\ device_spent'.edits = device_spent.edits /\ worker'.pc = "idle" /\ worker'.old = sync
      /\ sync'.native = sync.native /\ sync'.key = sync.key
  BY <1>a, IdleWorker, FailedState DEF Device!CallFails, Device!EndWith, Device!Trouble, DeviceTyped
<1>1. CASE UNCHANGED deploy
  BY <1>a, <1>0, <1>1, QuitKeeps
<1>2. CASE worker.pc = "prepare" /\ deploy' = [deploy EXCEPT !.status = "failed"]
  <2>1. deploy'.id = deploy.id /\ deploy'.status = "failed" /\ deploy'.source = deploy.source
    BY <1>a, <1>2 DEF DeviceTyped, DeployRecords
  <2>2. deploy.status = "running"
    BY <1>2 DEF DeviceInv, ReservationIsOwn
  <2>3. deploy.id \in Nat /\ device_applied.id \in Nat
    BY <1>a DEF DeviceTyped, DeployRecords
  <2>4. ASSUME NEW m, Past(m) PROVE Past(m)'
    BY <1>0, <2>1, <2>4 DEF Past, Open, Device!Terminal
  <2>5. NumbersGrow'
    BY <1>0, <2>1, <2>3 DEF DeviceInv, NumbersGrow, Open, Device!Terminal
  <2>6. LiveIsReceived'
    BY <1>0, <2>1, <2>2 DEF DeviceInv, LiveIsReceived, SameStructure
  <2>7. ReservationIsOwn' /\ SourceIsProjected' /\ DownloadIsExact'
    BY <1>0 DEF ReservationIsOwn, SourceIsProjected, DownloadIsExact
  <2>8. CoreIsRight'
    BY <1>0 DEF DeviceInv, CoreIsRight
  <2>9. TaskIsKnown'
    <3>1. PICK n, k : n = sync.native /\ k = sync.key /\ n \in Nat
      BY <1>a DEF DeviceTyped, SyncRecords
    <3>2. PairOk(n, k)
      BY <3>1 DEF DeviceInv, TaskIsKnown
    <3>3. ReceiptKeys' = ReceiptKeys
      BY <1>0, RecordsStay
    <3>4. n # 0 => Past(k[3])'
      BY <2>4, <3>2 DEF PairOk
    <3>5. PairOk(n, k)'
      BY <1>0, <3>2, <3>3, <3>4 DEF PairOk, Downloaded
    <3>6. PairOk(sync.native, sync.key)'
      BY <1>0, <3>1, <3>5
    <3> QED BY <1>0, <3>6 DEF DeviceInv, TaskIsKnown
  <2> QED BY <1>a, <2>5, <2>6, <2>7, <2>8, <2>9 DEF DeviceInv
<1> QED BY <1>1, <1>2 DEF Device!CallFails

LEMMA DeviceReserveKeeps == DeviceInv /\ Device!Reserve => DeviceInv'
<1> SUFFICES ASSUME DeviceInv, Device!Reserve PROVE DeviceInv'
  OBVIOUS
<1>a. DeviceTyped /\ DeviceTyped'
  BY DeviceReserveTyped DEF DeviceInv
<1>0. /\ UNCHANGED <<core, profile, device_applied, device_live, device_task>> /\ worker.pc = "reserve"
      /\ device_spent'.edits = device_spent.edits
  BY DEF Device!Reserve
<1>1. CASE Device!EndWith(Device!State("pending")) /\ UNCHANGED deploy
  <2>1. worker'.pc = "idle" /\ worker'.old = sync /\ sync'.native = 0
    BY <1>a, <1>1, IdleWorker, StateTyped DEF Device!EndWith
  <2> QED BY <1>a, <1>0, <1>1, <2>1, QuitKeeps
<1>2. CASE /\ deploy.status \in Device!Terminal
           /\ deploy' = [id |-> Device!NextId, status |-> "running", auto |-> TRUE, source |-> worker.source]
           /\ sync' = [Device!State("running") EXCEPT !.deploy = Device!NextId,
                                              !.key = <<worker.source, worker.view.settings, worker.view.applied>>]
           /\ worker' = [worker EXCEPT !.pc = "prepare"]
  <2>1. /\ worker'.pc = "prepare" /\ worker'.source = worker.source
        /\ worker'.base = worker.base /\ worker'.view = worker.view /\ worker'.old = worker.old
    BY <1>a, <1>2 DEF DeviceTyped, WorkerRecords
  <2>2. PICK p \in SyncRecords : p = Device!State("running") /\ p.native = 0
    BY StateTyped
  <2>3. sync'.native = 0
    BY <1>2, <2>2 DEF SyncRecords
  <2>4. /\ deploy'.id = Device!NextId /\ deploy'.status = "running" /\ deploy'.auto /\ deploy'.source = worker.source /\ ~Open
    BY <1>2 DEF Open
  <2>5. /\ deploy'.id > deploy.id /\ deploy'.id > device_applied.id /\ deploy.id \in Nat /\ device_applied.id \in Nat /\ deploy'.id \in Nat
        /\ worker.view.applied \in Nat
    BY <2>4, <1>a, NextNumber DEF DeviceTyped, DeployRecords, WorkerRecords
  <2>6. ASSUME NEW m \in Nat, Past(m) PROVE Past(m)'
    BY <2>4, <2>5, <2>6 DEF Past
  <2>7. NumbersGrow'
    BY <1>0, <2>1, <2>4, <2>5, <2>6 DEF DeviceInv, NumbersGrow, Open
  <2>8. LiveIsReceived'
    BY <1>0, <1>2, <2>4 DEF DeviceInv, LiveIsReceived, SameStructure, Device!Terminal
  <2>9. ReservationIsOwn' /\ CoreIsRight'
    BY <1>0, <2>1, <2>3, <2>4 DEF DeviceInv, ReservationIsOwn, CoreIsRight
  <2>10. SourceIsProjected' /\ DownloadIsExact'
    BY <1>0, <2>1 DEF DeviceInv, SourceIsProjected, SameStructure, DownloadIsExact
  <2>11. TaskIsKnown'
    <3>1. PICK n, k : n = worker.old.native /\ k = worker.old.key /\ n \in Nat
      BY <1>a DEF DeviceTyped, WorkerRecords, SyncRecords
    <3>2. PairOk(n, k)
      BY <1>0, <3>1 DEF DeviceInv, TaskIsKnown
    <3>3. ReceiptKeys' = ReceiptKeys
      BY <1>0, RecordsStay
    <3>4. n # 0 => k[3] \in Nat
      BY <3>2 DEF PairOk, ReceiptKeys
    <3>5. PairOk(n, k)'
      BY <1>0, <2>6, <3>2, <3>3, <3>4 DEF PairOk, Downloaded
    <3>6. PairOk(worker.old.native, worker.old.key)' /\ PairOk(sync.native, sync.key)'
      BY <2>1, <2>3, <3>1, <3>5 DEF PairOk
    <3> QED BY <1>0, <2>1, <3>6 DEF DeviceInv, TaskIsKnown
  <2> QED BY <1>a, <2>7, <2>8, <2>9, <2>10, <2>11 DEF DeviceInv
<1> QED BY <1>1, <1>2 DEF Device!Reserve

LEMMA DevicePublishKeeps == DeviceInv /\ Device!Publish => DeviceInv'
<1> SUFFICES ASSUME DeviceInv, Device!Publish PROVE DeviceInv'
  OBVIOUS
<1>a. DeviceTyped /\ DeviceTyped'
  BY DevicePublishTyped DEF DeviceInv
<1>0. /\ UNCHANGED <<core, profile, device_task>> /\ worker.pc = "publish"
      /\ device_spent'.edits = device_spent.edits /\ worker'.pc = "idle" /\ worker'.old = sync
      /\ deploy' = [deploy EXCEPT !.status = deploy'.status] /\ deploy'.status \in {"failed", "succeeded", "unknown"}
  BY <1>a, IdleWorker DEF Device!Publish, Device!EndWith, Device!Quit, Device!Trouble, DeviceTyped, DeployRecords
<1>1. sync'.native = 0
  <2>1. sync.native = 0
    BY <1>0 DEF DeviceInv, ReservationIsOwn
  <2>2. PICK p \in SyncRecords : p = Device!State("failed") /\ p.native = 0
    BY StateTyped
  <2>3. sync' \in {sync, Device!Failed, Device!State("succeeded"), [p EXCEPT !.wait = "retry"]}
    BY <2>2 DEF Device!Publish, Device!EndWith, Device!Quit
  <2>4. [p EXCEPT !.wait = "retry"].native = 0
    BY <2>2 DEF SyncRecords
  <2> QED BY <1>a, <2>1, <2>3, <2>4, StateTyped, FailedState DEF DeviceTyped
<1>2. deploy'.id = deploy.id /\ deploy'.source = deploy.source /\ deploy'.auto = deploy.auto
  BY <1>a, <1>0 DEF DeviceTyped, DeployRecords
<1>3. deploy.auto /\ deploy.status = "running" /\ deploy.source = worker.source /\ worker.snap = device_live
  BY <1>0 DEF DeviceInv, ReservationIsOwn
<1>4. deploy.id \in Nat /\ device_applied.id \in Nat
  BY <1>a DEF DeviceTyped, DeployRecords
<1>5. \/ UNCHANGED <<device_applied, device_live>> /\ deploy'.status = "failed"
      \/ /\ device_applied' = [id |-> deploy.id, source |-> worker.source] /\ deploy'.status = "succeeded"
         /\ device_live' = Device!Candidate /\ Device!Unchanged(deploy.id)
      \/ /\ UNCHANGED device_applied /\ device_live' = Device!Candidate /\ deploy'.status = "unknown" /\ Device!Unchanged(deploy.id)
  BY <1>a DEF DeviceTyped, DeployRecords, Device!Publish
<1>6. Device!Unchanged(deploy.id) => SameStructure(Device!Candidate, worker.source)
  <2> SUFFICES ASSUME Device!Unchanged(deploy.id) PROVE SameStructure(Device!Candidate, worker.source)
    OBVIOUS
  <2>1. /\ Device!Candidate.sets = worker.source.sets /\ Device!Candidate.rules = worker.source.rules
        /\ Device!Candidate.other = device_live.other
    BY <1>a, <1>3, CandidateTyped
  <2>2. device_applied.id = worker.view.applied /\ device_applied.source = worker.base /\ device_applied.id # 0
    BY <1>0 DEF DeviceInv, NumbersGrow, Device!Unchanged, Past
  <2>3. device_live.other = worker.base.other
    BY <1>3, <2>2 DEF DeviceInv, LiveIsReceived, SameStructure
  <2>4. worker.source.other = worker.base.other
    BY <1>0 DEF DeviceInv, SourceIsProjected
  <2> QED BY <2>1, <2>3, <2>4 DEF SameStructure
<1>7. NumbersGrow'
  BY <1>0, <1>2, <1>3, <1>4, <1>5 DEF DeviceInv, NumbersGrow, Open, Device!Terminal
<1>8. LiveIsReceived'
  BY <1>0, <1>2, <1>3, <1>5, <1>6 DEF DeviceInv, LiveIsReceived, SameStructure
<1>9. ReservationIsOwn' /\ SourceIsProjected' /\ DownloadIsExact'
  BY <1>0 DEF ReservationIsOwn, SourceIsProjected, DownloadIsExact
<1>10. CoreIsRight'
  BY <1>0, <1>1 DEF DeviceInv, CoreIsRight
<1>11. TaskIsKnown'
  BY <1>0, <1>1 DEF DeviceInv, TaskIsKnown, PairOk
<1> QED BY <1>a, <1>7, <1>8, <1>9, <1>10, <1>11 DEF DeviceInv

LEMMA DeviceStarts == Init => DeviceInv
<1> SUFFICES ASSUME Init PROVE DeviceInv
  OBVIOUS
<1> USE DEF Init, Device!RuleSyncInit
<1>0. profile \in Known /\ device_spent.edits = 0
  BY DEF Known, Sources
<1>1. sync \in SyncRecords /\ sync.native = 0
  BY DEF SyncRecords, Device!NoState
<1>2. worker \in WorkerRecords /\ worker.pc = "idle" /\ worker.old.native = 0
  BY <1>0, <1>1 DEF WorkerRecords, Device!Idle, Device!Scopes
<1>3. DeviceTyped
  <2>1. deploy \in DeployRecords
    BY <1>0 DEF DeployRecords, Device!Terminal
  <2>2. device_task \in TaskRecords
    BY DEF TaskRecords, Device!NoTask
  <2>3. device_settings \in Device!Scopes
    BY DEF Device!Scopes
  <2>4. device_applied \in [id : Nat, source : Known]
    BY <1>0
  <2> QED BY <1>0, <1>1, <1>2, <2>1, <2>2, <2>3, <2>4 DEF DeviceTyped
<1>4. NumbersGrow
  BY <1>2 DEF NumbersGrow, Open, Device!Terminal
<1>5. LiveIsReceived
  BY DEF LiveIsReceived, SameStructure
<1>6. ReservationIsOwn /\ SourceIsProjected /\ DownloadIsExact
  BY <1>2 DEF ReservationIsOwn, SourceIsProjected, DownloadIsExact
<1>7. CoreIsRight /\ TaskIsKnown
  BY <1>1, <1>2 DEF CoreIsRight, TaskIsKnown, PairOk, Device!NoTask
<1> QED BY <1>3, <1>4, <1>5, <1>6, <1>7 DEF DeviceInv

LEMMA DeviceStands == DeviceInv /\ UNCHANGED DeviceVars => DeviceInv'
<1> SUFFICES ASSUME DeviceInv, UNCHANGED DeviceVars PROVE DeviceInv'
  OBVIOUS
<1>1. device_spent'.edits = device_spent.edits
  BY DEF DeviceVars
<1>2. DeviceTyped'
  BY <1>1, RecordsStay DEF DeviceVars, DeviceInv, DeviceTyped
<1> QED BY <1>1, <1>2, FrameKeeps DEF DeviceVars

LEMMA NextIsOfTheDevice == [Next]_vars => [Device!RuleSyncNext]_DeviceVars
BY DEF Next, vars

LEMMA DeviceKeeps == ~TakenBackLate /\ DeviceInv /\ [Next]_vars => DeviceInv'
<1> SUFFICES ASSUME ~TakenBackLate, DeviceInv, [Next]_vars PROVE DeviceInv'
  OBVIOUS
<1>1. CASE UNCHANGED DeviceVars
  BY <1>1, DeviceStands
<1>2. CASE Device!RuleSyncNext
  <2>1. CASE Device!WorkerStep
    BY <2>1, DeviceReadKeeps, DeviceCompareKeeps, DeviceAskKeeps, DeviceStartRefreshKeeps, DevicePutKeeps, DevicePutDoneKeeps,
       DeviceBusyKeeps, DevicePostKeeps, DeviceVerifyKeeps, DeviceSnapshotKeeps, DeviceAdvanceKeeps, DeviceReserveKeeps,
       DevicePrepareKeeps, DevicePublishKeeps DEF Device!WorkerStep
  <2> QED BY <1>2, <2>1, DeviceEditProfileKeeps, DeviceConfigureKeeps, DeviceDepartsKeeps, DeviceReturnsKeeps,
             DeviceReleaseBeginsKeeps, DeviceReleaseEndsKeeps, DeviceForgetKeeps, DeviceTaskStepKeeps, DeviceTimePassesKeeps,
             DevicePolledKeeps, DeviceCallFailsKeeps, DeviceCrashKeeps DEF Device!RuleSyncNext
<1> QED BY <1>1, <1>2, NextIsOfTheDevice

-------------------------------------------------------------------------------
(* What a step of the worker may do, as the properties of AgentRuleSync say it.        *)
OnlyRulesStep ==
  worker.pc = "publish" /\ device_live' # device_live /\ UNCHANGED device_task =>
    /\ device_live'.other = device_live.other
    /\ ~worker.view.settings.rules => device_live'.rules = device_live.rules
    /\ ~worker.view.settings.library => device_live'.sets = device_live.sets /\ device_live'.content = device_live.content
AcknowledgedStep ==
  sync'.status = "succeeded" /\ sync.status # "succeeded" /\ device_applied'.source # device_applied.source =>
    LET said == device_applied'.source IN
    /\ said.other = device_live'.other
    /\ worker.view.settings.library =>
         said.content = device_live'.content \/ (core = "oxidns" /\ profile.content # said.content)
DownloadStep == device_task'.id # device_task.id => worker.view.settings.library

LEMMA LiveMovesInPublish ==
  DeviceInv /\ Device!RuleSyncNext /\ worker.pc = "publish" /\ device_live' # device_live /\ UNCHANGED device_task => Device!Publish
<1> SUFFICES ASSUME DeviceInv, Device!RuleSyncNext, worker.pc = "publish", device_live' # device_live, UNCHANGED device_task
             PROVE Device!Publish
  OBVIOUS
<1>1. ~Device!ReleaseEnds
  BY DEF DeviceInv, ReservationIsOwn, Device!ReleaseEnds
<1>2. ~Device!TaskStep
  BY DEF DeviceInv, ReservationIsOwn, Device!TaskStep
<1>3. CASE Device!WorkerStep
  BY <1>3 DEF Device!WorkerStep, Device!Read, Device!Compare, Device!Ask, Device!StartRefresh, Device!Put, Device!PutDone, Device!Busy,
     Device!Post, Device!Verify, Device!Snapshot, Device!Advance, Device!Reserve, Device!Prepare
<1>4. CASE ~Device!WorkerStep
  BY <1>1, <1>2, <1>4 DEF Device!RuleSyncNext, Device!EditProfile, Device!Configure, Device!Departs, Device!Returns,
     Device!ReleaseBegins, Device!Forget, Device!TimePasses, Device!Polled, Device!CallFails, Device!Crash
<1> QED BY <1>3, <1>4

LEMMA RulesOnly == DeviceInv /\ [Device!RuleSyncNext]_DeviceVars => OnlyRulesStep
<1> SUFFICES ASSUME DeviceInv, [Device!RuleSyncNext]_DeviceVars, worker.pc = "publish", device_live' # device_live, UNCHANGED device_task
             PROVE  /\ device_live'.other = device_live.other
                    /\ ~worker.view.settings.rules => device_live'.rules = device_live.rules
                    /\ ~worker.view.settings.library =>
                         device_live'.sets = device_live.sets /\ device_live'.content = device_live.content
  BY DEF OnlyRulesStep
<1>1. Device!Publish
  BY LiveMovesInPublish DEF DeviceVars
<1>2. device_live' = Device!Candidate /\ Device!Unchanged(deploy.id)
  BY <1>1 DEF Device!Publish
<1>3. deploy.status = "running" /\ worker.snap = device_live
  BY DEF DeviceInv, ReservationIsOwn
<1>4. device_applied.source = worker.base /\ device_applied.id # 0
  BY <1>2 DEF DeviceInv, NumbersGrow, Past, Device!Unchanged
<1>5. SameStructure(device_live, worker.base)
  BY <1>3, <1>4 DEF DeviceInv, LiveIsReceived
<1>6. /\ Device!Candidate.sets = worker.source.sets /\ Device!Candidate.rules = worker.source.rules
      /\ Device!Candidate.other = device_live.other
      /\ Device!Candidate.content = IF worker.view.settings.library THEN worker.source.content ELSE device_live.content
  BY <1>3, CandidateTyped DEF DeviceInv
<1>7. /\ ~worker.view.settings.rules => worker.source.rules = worker.base.rules
      /\ ~worker.view.settings.library => worker.source.sets = worker.base.sets
  BY DEF DeviceInv, SourceIsProjected
<1> QED BY <1>2, <1>5, <1>6, <1>7 DEF SameStructure

LEMMA SaidBySync ==
  DeviceInv /\ Device!RuleSyncNext /\ sync'.status = "succeeded" /\ sync.status # "succeeded"
  /\ device_applied'.source # device_applied.source => Device!Ask \/ Device!Advance \/ Device!Publish
<1> SUFFICES ASSUME DeviceInv, Device!RuleSyncNext, sync'.status = "succeeded", sync.status # "succeeded",
                    device_applied'.source # device_applied.source
             PROVE  Device!Ask \/ Device!Advance \/ Device!Publish
  OBVIOUS
<1>1. sync' # sync /\ device_applied' # device_applied
  OBVIOUS
<1>2. CASE Device!WorkerStep
  BY <1>1, <1>2 DEF Device!WorkerStep, Device!Read, Device!Compare, Device!StartRefresh, Device!Put, Device!PutDone, Device!Busy,
     Device!Post, Device!Verify, Device!Snapshot, Device!Reserve, Device!Prepare
<1>3. CASE ~Device!WorkerStep
  BY <1>1, <1>3 DEF Device!RuleSyncNext, Device!EditProfile, Device!Configure, Device!Departs, Device!Returns,
     Device!ReleaseBegins, Device!ReleaseEnds, Device!Forget, Device!TaskStep, Device!TimePasses, Device!Polled, Device!CallFails,
     Device!Crash
<1> QED BY <1>2, <1>3

LEMMA WhatIsSaidRuns == DeviceInv /\ [Device!RuleSyncNext]_DeviceVars => AcknowledgedStep
<1> SUFFICES ASSUME DeviceInv, [Device!RuleSyncNext]_DeviceVars, sync'.status = "succeeded", sync.status # "succeeded",
                    device_applied'.source # device_applied.source
             PROVE  /\ device_applied'.source.other = device_live'.other
                    /\ worker.view.settings.library =>
                         device_applied'.source.content = device_live'.content
                         \/ (core = "oxidns" /\ profile.content # device_applied'.source.content)
  BY DEF AcknowledgedStep
<1>0. Device!Ask \/ Device!Advance \/ Device!Publish
  BY SaidBySync DEF DeviceVars
<1>t. DeviceTyped /\ worker.source \in Known /\ device_live \in Known /\ profile \in Known
  BY DEF DeviceInv, DeviceTyped, WorkerRecords
<1>1. CASE Device!Ask
  <2>1. device_applied' = [device_applied EXCEPT !.source = worker.base] /\ Device!Unchanged(0) /\ worker.pc = "ask"
    BY <1>1 DEF Device!Ask, Device!Acknowledge
  <2>2. device_applied'.source = worker.base /\ device_applied.source = worker.base
    BY <1>t, <2>1 DEF DeviceInv, DeviceTyped, NumbersGrow, Device!Unchanged
  <2> QED BY <2>2
<1>2. CASE Device!Advance
  <2>1. device_applied' = [device_applied EXCEPT !.source = worker.source] /\ Device!Unchanged(0) /\ worker.pc = "advance"
        /\ device_live' = device_live /\ device_applied.id # 0
    BY <1>2 DEF Device!Advance, Device!Acknowledge
  <2>2. device_applied'.source = worker.source /\ device_applied.id = worker.view.applied /\ device_applied.source = worker.base
    BY <1>t, <2>1 DEF DeviceInv, DeviceTyped, NumbersGrow, Device!Unchanged
  <2>3. worker.source.other = device_live.other
    BY <2>1, <2>2 DEF DeviceInv, SourceIsProjected, LiveIsReceived, SameStructure
  <2>4. CASE core = "mihomo"
    BY <2>1, <2>2, <2>3, <2>4 DEF DeviceInv, DownloadIsExact
  <2>5. CASE core = "oxidns"
    <3>1. /\ device_task.status = "succeeded" /\ device_task.id = worker.old.native
          /\ worker.old.native # 0 /\ worker.old.key = WorkersKey /\ PairOk(worker.old.native, worker.old.key)
          /\ device_task.left = {}
      BY <2>1, <2>5 DEF DeviceInv, TaskIsKnown
    <3>2. \A l \in Lists : Downloaded(l, worker.source)
      BY <2>2, <3>1 DEF PairOk, WorkersKey
    <3>3. device_live.content \in [Lists -> 0..device_spent.edits] /\ worker.source.content \in [Lists -> 0..device_spent.edits]
      BY <1>t DEF Known, Sources
    <3>4. worker.source.content = device_live.content \/ profile.content # worker.source.content
      BY <3>2, <3>3 DEF Downloaded
    <3> QED BY <2>1, <2>2, <2>3, <2>5, <3>4
  <2> QED BY <1>t, <2>4, <2>5 DEF DeviceTyped
<1>3. CASE Device!Publish
  <2>1. device_live' = Device!Candidate /\ device_applied' = [id |-> deploy.id, source |-> worker.source]
        /\ Device!Unchanged(deploy.id) /\ worker.pc = "publish"
    BY <1>3 DEF Device!Publish
  <2>2. deploy.status = "running" /\ worker.snap = device_live
    BY <2>1 DEF DeviceInv, ReservationIsOwn
  <2>3. device_applied.source = worker.base /\ device_applied.id # 0
    BY <2>1 DEF DeviceInv, NumbersGrow, Past, Device!Unchanged
  <2>4. worker.source.other = device_live.other
    BY <2>1, <2>2, <2>3 DEF DeviceInv, SourceIsProjected, LiveIsReceived, SameStructure
  <2>5. /\ Device!Candidate.other = device_live.other
        /\ worker.view.settings.library => Device!Candidate.content = worker.source.content
    BY <1>t, <2>2, CandidateTyped
  <2> QED BY <2>1, <2>4, <2>5
<1> QED BY <1>0, <1>1, <1>2, <1>3

LEMMA DownloadsAreOn == DeviceInv /\ [Device!RuleSyncNext]_DeviceVars => DownloadStep
<1> SUFFICES ASSUME DeviceInv, [Device!RuleSyncNext]_DeviceVars, device_task'.id # device_task.id PROVE worker.view.settings.library
  BY DEF DownloadStep
<1>1. device_task' # device_task
  OBVIOUS
<1>2. ~Device!TaskStep
  BY DEF DeviceInv, DeviceTyped, TaskRecords, Device!TaskStep
<1>3. Device!Post
  <2>1. CASE Device!WorkerStep
    BY <1>1, <2>1 DEF Device!WorkerStep, Device!Read, Device!Compare, Device!Ask, Device!StartRefresh, Device!Put, Device!PutDone,
       Device!Busy, Device!Verify, Device!Snapshot, Device!Advance, Device!Reserve, Device!Prepare, Device!Publish
  <2>2. CASE ~Device!WorkerStep
    BY <1>1, <1>2, <2>2 DEF DeviceVars, Device!RuleSyncNext, Device!EditProfile, Device!Configure, Device!Departs, Device!Returns,
       Device!ReleaseBegins, Device!ReleaseEnds, Device!Forget, Device!TimePasses, Device!Polled, Device!CallFails, Device!Crash
  <2> QED BY <2>1, <2>2
<1> QED BY <1>3 DEF Device!Post, DeviceInv, SourceIsProjected

LEMMA DeviceSteps == DeviceInv /\ [Next]_vars => OnlyRulesStep /\ AcknowledgedStep /\ DownloadStep
BY RulesOnly, WhatIsSaidRuns, DownloadsAreOn, NextIsOfTheDevice
===============================================================================
