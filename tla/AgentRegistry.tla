---------------------------- MODULE AgentRegistry ----------------------------
(* The panel's record of Agents (agents/manager.py, routes/agents.py): registration,   *)
(* heartbeats, edits, moves between configuration spaces, removal, and the requests that *)
(* publish what a page showed, while configuration spaces come and go.                    *)
EXTENDS Naturals, FiniteSets

CONSTANTS
  Spaces, FirstSpace,    \* configuration spaces and the one that starts as default
  Machines,              \* hosts, each with the name and address it registers with
  MaxAgents, MaxActs     \* bounds on records and on what people do

VARIABLES
  spaces, default, edition,   \* the spaces there are, the default one, the revision of each
  agents,                     \* id -> record
  tokens,                     \* machine -> the id whose token it keeps, 0 for none
  review,                     \* a page that lists the Agents to move
  push,                       \* one publish request
  sent,                       \* what the last publish request delivered
  used, acts                  \* the ids given out, what people have done

registryVars == <<spaces, default, edition, agents, tokens, review, push, sent, used, acts>>

Services == {"mihomo", "oxidns"}
Gone == [there |-> FALSE, key |-> CHOOSE m \in Machines : TRUE, space |-> FirstSpace, service |-> "mihomo",
         task |-> [open |-> FALSE, space |-> FirstSpace, service |-> "mihomo"], upgrading |-> FALSE, following |-> FALSE]
Ids == 1..MaxAgents
There == {i \in Ids : agents[i].there}
NoReview == [open |-> FALSE, from |-> FirstSpace, ids |-> {}]
NoPush == [pc |-> "idle", id |-> 1, guarded |-> FALSE, page |-> [space |-> FirstSpace, service |-> "mihomo", edition |-> 0],
           space |-> FirstSpace, service |-> "mihomo", edition |-> 0]
NotSent == [guarded |-> FALSE, space |-> FirstSpace, service |-> "mihomo", edition |-> 0, page |-> NoPush.page, task |-> Gone.task]

RegistryInit ==
  /\ spaces = Spaces /\ default = FirstSpace /\ edition = [s \in Spaces |-> 0]
  /\ agents = [i \in Ids |-> Gone] /\ tokens = [m \in Machines |-> 0]
  /\ review = NoReview /\ push = NoPush /\ sent = NotSent /\ used = 0 /\ acts = 0

Act == acts < MaxActs /\ acts' = acts + 1 /\ UNCHANGED used
Busy(i) == agents[i].task.open \/ agents[i].upgrading
Matching(m) == {i \in There : agents[i].key = m}

-----------------------------------------------------------------------------
(* Registration by a machine, with the token it kept. A record of its name and address is  *)
(* taken over only with that token, and a bound space stays as it is while work is open.    *)
Known(m, i, space, service) ==
  /\ tokens[m] = i
  /\ space # agents[i].space => ~Busy(i)
  /\ agents[i].following => space = agents[i].space /\ service = agents[i].service

Register(m) ==
  \E wanted \in Spaces \cup {default}, service \in Services :
    /\ acts < MaxActs /\ acts' = acts + 1 /\ wanted \in spaces
    /\ IF Matching(m) # {}
       THEN \E i \in Matching(m) :
              /\ Known(m, i, wanted, service)
              /\ agents' = [agents EXCEPT ![i].space = wanted, ![i].service = service]
              /\ UNCHANGED <<tokens, used>>
       ELSE LET i == used + 1 IN
              /\ i \in Ids /\ used' = i
              /\ agents' = [agents EXCEPT ![i] = [Gone EXCEPT !.there = TRUE, !.key = m, !.space = wanted,
                                                             !.service = service]]
              /\ tokens' \in {[tokens EXCEPT ![m] = i], tokens}
    /\ UNCHANGED <<spaces, default, edition, review, push, sent>>

(* An edit of the record; the space is looked up in the transaction that binds it.              *)
Update(i) ==
  /\ i \in There /\ ~agents[i].upgrading /\ Act
  /\ \E space \in spaces, service \in Services, key \in Machines :
       /\ space # agents[i].space => ~agents[i].task.open
       /\ agents[i].following => space = agents[i].space /\ service = agents[i].service /\ key = agents[i].key
       /\ agents' = [agents EXCEPT ![i].space = space, ![i].service = service, ![i].key = key]
  /\ UNCHANGED <<spaces, default, edition, tokens, review, push, sent>>

Delete(i) ==
  /\ i \in There /\ ~agents[i].upgrading /\ ~agents[i].following /\ Act
  /\ agents' = [agents EXCEPT ![i] = Gone]
  /\ UNCHANGED <<spaces, default, edition, tokens, review, push, sent>>

(* The machine removes its Agent; its record goes too unless a follow-up publication runs.         *)
Uninstall(i) ==
  /\ i \in There /\ ~agents[i].upgrading /\ Act
  /\ tokens' = [m \in Machines |-> IF tokens[m] = i THEN 0 ELSE tokens[m]]
  /\ agents' = IF agents[i].following THEN agents ELSE [agents EXCEPT ![i] = Gone]
  /\ UNCHANGED <<spaces, default, edition, review, push, sent>>

-----------------------------------------------------------------------------
(* Moving the Agents of one space: exactly those the page listed, together, none of them busy.     *)
Bound(space) == {i \in There : agents[i].space = space}

Review ==
  /\ \E space \in spaces : review' = [open |-> TRUE, from |-> space, ids |-> Bound(space)] /\ Bound(space) # {}
  /\ UNCHANGED <<spaces, default, edition, agents, tokens, push, sent, used, acts>>

Moves(target) ==
  agents' = [i \in Ids |-> IF i \in Bound(review.from) THEN [agents[i] EXCEPT !.space = target] ELSE agents[i]]

Rebind_EvenBusy ==
  /\ review.open /\ Act
  /\ \E target \in spaces \ {review.from} :
       review.from \in spaces /\ Bound(review.from) = review.ids /\ Moves(target)
  /\ review' = NoReview
  /\ UNCHANGED <<spaces, default, edition, tokens, push, sent>>

Rebind ==
  /\ review.open /\ Act
  /\ \E target \in spaces \ {review.from} :
       /\ review.from \in spaces /\ Bound(review.from) = review.ids
       /\ \A i \in review.ids : ~Busy(i)
       /\ Moves(target)
  /\ review' = NoReview
  /\ UNCHANGED <<spaces, default, edition, tokens, push, sent>>

(* A space with Agents stays; the default one hands its role to another.                           *)
DeleteSpace(space) ==
  /\ space \in spaces /\ Bound(space) = {} /\ Cardinality(spaces) > 1 /\ Act
  /\ default' \in IF space = default THEN spaces \ {space} ELSE {default}
  /\ spaces' = spaces \ {space}
  /\ UNCHANGED <<edition, agents, tokens, review, push, sent>>

EditSpace(space) ==
  /\ space \in spaces /\ Act
  /\ edition' = [edition EXCEPT ![space] = @ + 1]
  /\ UNCHANGED <<spaces, default, agents, tokens, review, push, sent>>

Work(i) ==
  /\ i \in There
  /\ \/ ~Busy(i) /\ ~agents[i].following /\ Act /\ agents' = [agents EXCEPT ![i].upgrading = TRUE]
     \/ agents[i].upgrading /\ agents' = [agents EXCEPT ![i].upgrading = FALSE] /\ UNCHANGED <<used, acts>>
     \/ ~agents[i].following /\ ~agents[i].task.open /\ Act /\ agents' = [agents EXCEPT ![i].following = TRUE]
     \/ agents[i].following /\ agents' = [agents EXCEPT ![i].following = FALSE] /\ UNCHANGED <<used, acts>>
     \/ /\ agents[i].task.open /\ (push.pc \notin {"reserved", "bound"} \/ push.id # i)
        /\ agents' = [agents EXCEPT ![i].task.open = FALSE] /\ UNCHANGED <<used, acts>>
  /\ UNCHANGED <<spaces, default, edition, tokens, review, push, sent>>

-----------------------------------------------------------------------------
(* A publish request. A guarded one carries the space, the service and the revision the page         *)
(* showed; each step reads the records anew.                                                         *)
Still == UNCHANGED <<spaces, default, edition, tokens, review>>
OpenPage(i) ==
  /\ push.pc = "idle" /\ i \in There /\ Act
  /\ \E guarded \in BOOLEAN :
       push' = [NoPush EXCEPT !.pc = "page", !.id = i, !.guarded = guarded,
                              !.page = [space |-> agents[i].space, service |-> agents[i].service,
                                        edition |-> edition[agents[i].space]]]
  /\ Still /\ UNCHANGED <<agents, sent>>

ReadAgent ==
  /\ push.pc = "page"
  /\ push' = IF agents[push.id].there
             THEN [push EXCEPT !.pc = "agent", !.space = agents[push.id].space, !.service = agents[push.id].service]
             ELSE NoPush
  /\ Still /\ UNCHANGED <<agents, sent, used, acts>>

AsShown(p) == p.guarded => p.page = [space |-> p.space, service |-> p.service, edition |-> p.edition]

Snapshot ==
  LET p == [push EXCEPT !.pc = "snapshot", !.edition = edition[push.space]] IN
  /\ push.pc = "agent"
  /\ push' = IF push.space \in spaces /\ AsShown(p) THEN p ELSE NoPush
  /\ Still /\ UNCHANGED <<agents, sent, used, acts>>

(* The reservation opens the task on the record as it is now.                                         *)
Reserve ==
  /\ push.pc = "snapshot"
  /\ LET i == push.id IN
     IF agents[i].there /\ ~Busy(i) /\ ~agents[i].following
     THEN /\ agents' = [agents EXCEPT ![i].task = [open |-> TRUE, space |-> agents[i].space, service |-> agents[i].service]]
          /\ push' = [push EXCEPT !.pc = "reserved"]
     ELSE push' = NoPush /\ UNCHANGED agents
  /\ Still /\ UNCHANGED <<sent, used, acts>>

CheckBinding ==
  /\ push.pc = "reserved"
  /\ LET task == agents[push.id].task IN
     IF push.guarded /\ (task.space # push.space \/ task.service # push.service)
     THEN push' = NoPush /\ agents' = [agents EXCEPT ![push.id].task.open = FALSE]
     ELSE push' = [push EXCEPT !.pc = "bound"] /\ UNCHANGED agents
  /\ Still /\ UNCHANGED <<sent, used, acts>>

Send ==
  /\ push.pc = "bound"
  /\ sent' = IF agents[push.id].there
             THEN [guarded |-> push.guarded, space |-> push.space, service |-> push.service, edition |-> push.edition,
                   page |-> push.page, task |-> agents[push.id].task]
             ELSE sent
  /\ push' = NoPush
  /\ Still /\ UNCHANGED <<agents, used, acts>>

RegistryNext ==
  \/ \E m \in Machines : Register(m)
  \/ \E i \in Ids : Update(i) \/ Delete(i) \/ Uninstall(i) \/ Work(i) \/ OpenPage(i)
  \/ \E s \in Spaces : DeleteSpace(s) \/ EditSpace(s)
  \/ Review \/ Rebind \/ ReadAgent \/ Snapshot \/ Reserve \/ CheckBinding \/ Send
RegistrySpec == RegistryInit /\ [][RegistryNext]_registryVars

(* Every Agent is bound to a space that exists, however registrations, edits and moves meet the     *)
(* removal of spaces.                                                                               *)
BoundSpaceExists == \A i \in There : agents[i].space \in spaces

(* While a publication is open or an upgrade runs, the Agent stays in the space it works for.         *)
WorkKeepsItsSpace ==
  [][\A i \in Ids : Busy(i) /\ agents[i].there /\ agents'[i].there => agents'[i].space = agents[i].space]_registryVars

(* A publication that says what its page showed delivers that revision of that space to an Agent        *)
(* whose open task is for the same space and service.                                                   *)
GuardedPublishIsShown ==
  [][Send /\ sent' # sent /\ sent'.guarded =>
       /\ sent'.page = [space |-> sent'.space, service |-> sent'.service, edition |-> sent'.edition]
       /\ sent'.task.space = sent'.space /\ sent'.task.service = sent'.service]_registryVars
=============================================================================
