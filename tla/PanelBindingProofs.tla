-------------------------- MODULE PanelBindingProofs --------------------------
(* Theorems about who an Agent belongs to, for any spaces, machines, sessions   *)
(* and bounds: the panel's registry of Agents (AgentRegistry) and the wizard    *)
(* that installs a gateway's pair of them (GatewayInstallation). Each has an    *)
(* inductive invariant of its own, RegistryInv and GatewayInv; the step         *)
(* properties follow from the invariant and the guards of the step.             *)
EXTENDS MCAgents, TLAPS

-------------------------------------------------------------------------------
(* The registry of Agents: an id is used once, and what a publish request has    *)
(* checked stays true of the task it opened.                                     *)

RegistryPlaces == Spaces \cup {FirstSpace}
RegistryTasks == [open : BOOLEAN, space : RegistryPlaces, service : Registry!Services]
RegistryRecords == [there : BOOLEAN, key : Machines \cup {Registry!Gone.key}, space : RegistryPlaces, service : Registry!Services,
                    task : RegistryTasks, upgrading : BOOLEAN, following : BOOLEAN]
PushRecords == [pc : {"idle", "page", "agent", "snapshot", "reserved", "bound"}, id : Nat, guarded : BOOLEAN,
                page : [space : RegistryPlaces, service : Registry!Services, edition : Nat],
                space : RegistryPlaces, service : Registry!Services, edition : Nat]

RegistryTyped ==
  /\ spaces \subseteq Spaces
  /\ registry_edition \in [Spaces -> Nat]
  /\ registry_agents \in [1..MaxAgents -> RegistryRecords]
  /\ push \in PushRecords
  /\ used \in Nat

BoundToASpace == \A i \in 1..MaxAgents : registry_agents[i].there => registry_agents[i].space \in spaces
IdsAreSpent == \A i \in 1..MaxAgents : registry_agents[i].there => i <= used
PushIsCurrent ==
  /\ push.pc # "idle" => push.id \in 1..MaxAgents /\ push.id <= used
  /\ push.pc \in {"snapshot", "reserved", "bound"} => Registry!AsShown(push)
  /\ push.pc = "bound" /\ push.guarded /\ registry_agents[push.id].there =>
       registry_agents[push.id].task.space = push.space /\ registry_agents[push.id].task.service = push.service

RegistryInv == RegistryTyped /\ BoundToASpace /\ IdsAreSpent /\ PushIsCurrent

LEMMA RegistryStarts == Registry!RegistryInit => RegistryInv
  BY DEF Registry!RegistryInit, RegistryInv, RegistryTyped, BoundToASpace, IdsAreSpent, PushIsCurrent, Registry!Ids, Registry!Gone,
         Registry!NoPush, RegistryRecords, RegistryTasks, PushRecords, RegistryPlaces, Registry!Services

(* An action that neither opens a record nor changes a task or a push request.   *)
LEMMA RecordsKept ==
  ASSUME RegistryInv, spaces' \subseteq Spaces, registry_edition' \in [Spaces -> Nat],
         used' \in Nat, used' >= used,
         registry_agents' \in [1..MaxAgents -> RegistryRecords], push' = push,
         \A i \in 1..MaxAgents : registry_agents'[i].there =>
           /\ registry_agents'[i].space \in spaces'
           /\ i <= used'
           /\ \/ registry_agents[i].there /\ registry_agents'[i].task.space = registry_agents[i].task.space
                 /\ registry_agents'[i].task.service = registry_agents[i].task.service
              \/ i > used
  PROVE  RegistryInv'
<1>1. RegistryTyped' /\ BoundToASpace' /\ IdsAreSpent'
  BY DEF RegistryInv, RegistryTyped, BoundToASpace, IdsAreSpent
<1>2. PushIsCurrent'
  BY DEF RegistryInv, RegistryTyped, PushIsCurrent, Registry!AsShown
<1> QED BY <1>1, <1>2 DEF RegistryInv

(* The same for an action of the publish request.                                *)
LEMMA OnlyPush ==
  ASSUME RegistryInv, push' \in PushRecords, PushIsCurrent', UNCHANGED <<spaces, registry_edition, used>>,
         registry_agents' \in [1..MaxAgents -> RegistryRecords],
         \A i \in 1..MaxAgents : registry_agents'[i].there => registry_agents[i].there
                                  /\ registry_agents'[i].space = registry_agents[i].space
  PROVE  RegistryInv'
  BY DEF RegistryInv, RegistryTyped, BoundToASpace, IdsAreSpent

LEMMA RegisterKeeps ==
  ASSUME RegistryInv, NEW m \in Machines, Registry!Register(m)
  PROVE  RegistryInv'
<1> USE DEF RegistryInv, RegistryTyped, BoundToASpace, IdsAreSpent
<1>0. PICK wanted \in Spaces \cup {default}, service \in Registry!Services :
        /\ wanted \in spaces
        /\ UNCHANGED <<spaces, default, registry_edition, review, push, sent>>
        /\ \/ \E i \in Registry!Matching(m) :
                /\ registry_agents' = [registry_agents EXCEPT ![i].space = wanted, ![i].service = service]
                /\ UNCHANGED <<tokens, used>>
           \/ /\ used + 1 \in 1..MaxAgents /\ used' = used + 1
              /\ registry_agents' = [registry_agents EXCEPT ![used + 1] =
                   [Registry!Gone EXCEPT !.there = TRUE, !.key = m, !.space = wanted, !.service = service]]
  BY DEF Registry!Register, Registry!Ids
<1>1. CASE \E i \in Registry!Matching(m) :
             /\ registry_agents' = [registry_agents EXCEPT ![i].space = wanted, ![i].service = service]
             /\ UNCHANGED <<tokens, used>>
  <2>1. PICK i \in 1..MaxAgents : registry_agents[i].there
          /\ registry_agents' = [registry_agents EXCEPT ![i].space = wanted, ![i].service = service]
    BY <1>1 DEF Registry!Matching, Registry!There, Registry!Ids
  <2> DEFINE new == [registry_agents[i] EXCEPT !.space = wanted, !.service = service]
  <2>a. new \in RegistryRecords
    <3>1. registry_agents[i] \in RegistryRecords /\ wanted \in RegistryPlaces
      BY <1>0, <2>1 DEF RegistryPlaces
    <3> QED BY <3>1 DEF RegistryRecords
  <2>b. registry_agents' = [registry_agents EXCEPT ![i] = new]
    BY <2>1
  <2>2. registry_agents' \in [1..MaxAgents -> RegistryRecords]
    <3> HIDE DEF new
    <3> QED BY <2>a, <2>b
  <2>3. \A j \in 1..MaxAgents : registry_agents'[j].there =>
          /\ registry_agents'[j].space \in spaces /\ registry_agents[j].there
          /\ registry_agents'[j].task = registry_agents[j].task
    BY <1>0, <2>1 DEF RegistryRecords
  <2> QED BY <1>0, <1>1, <2>2, <2>3, RecordsKept
<1>2. CASE /\ used + 1 \in 1..MaxAgents /\ used' = used + 1
           /\ registry_agents' = [registry_agents EXCEPT ![used + 1] =
                [Registry!Gone EXCEPT !.there = TRUE, !.key = m, !.space = wanted, !.service = service]]
  <2> DEFINE new == [Registry!Gone EXCEPT !.there = TRUE, !.key = m, !.space = wanted, !.service = service]
  <2>1. new \in RegistryRecords /\ new.space = wanted
    BY <1>0 DEF RegistryRecords, RegistryPlaces, RegistryTasks, Registry!Gone, Registry!Services
  <2> HIDE DEF new
  <2>2. registry_agents' = [registry_agents EXCEPT ![used + 1] = new]
    BY <1>2 DEF new
  <2>3. registry_agents' \in [1..MaxAgents -> RegistryRecords]
    BY <2>1, <2>2
  <2>4. \A j \in 1..MaxAgents : registry_agents'[j].there =>
          /\ registry_agents'[j].space \in spaces /\ j <= used'
          /\ \/ registry_agents[j].there /\ registry_agents'[j].task = registry_agents[j].task
             \/ j > used
    BY <1>0, <1>2, <2>1, <2>2
  <2> QED BY <1>0, <1>2, <2>3, <2>4, RecordsKept
<1> QED BY <1>0, <1>1, <1>2

(* A record is replaced by one of the same task in a space that exists, or is gone. *)
LEMMA OneRecordKept ==
  ASSUME RegistryInv, NEW i \in 1..MaxAgents,
         UNCHANGED <<spaces, registry_edition, used, push>>,
         registry_agents' \in [1..MaxAgents -> RegistryRecords],
         \A j \in 1..MaxAgents \ {i} : registry_agents'[j] = registry_agents[j],
         registry_agents'[i].there =>
           /\ registry_agents[i].there
           /\ registry_agents'[i].space \in spaces
           /\ registry_agents'[i].task.space = registry_agents[i].task.space
           /\ registry_agents'[i].task.service = registry_agents[i].task.service
  PROVE  RegistryInv'
BY RecordsKept DEF RegistryInv, BoundToASpace, RegistryTyped, IdsAreSpent

LEMMA GoneIsARecord == Registry!Gone \in RegistryRecords /\ ~Registry!Gone.there
  BY DEF Registry!Gone, RegistryRecords, RegistryTasks, RegistryPlaces, Registry!Services

LEMMA UpdateKeeps ==
  ASSUME RegistryInv, NEW i \in 1..MaxAgents, Registry!Update(i)
  PROVE  RegistryInv'
<1>1. PICK space \in spaces, service \in Registry!Services, key \in Machines :
        /\ space # registry_agents[i].space => ~registry_agents[i].task.open
        /\ registry_agents[i].following =>
             space = registry_agents[i].space /\ service = registry_agents[i].service /\ key = registry_agents[i].key
        /\ registry_agents' = [registry_agents EXCEPT ![i].space = space, ![i].service = service, ![i].key = key]
  BY Zenon DEF Registry!Update
<1> DEFINE new == [registry_agents[i] EXCEPT !.space = space, !.service = service, !.key = key]
<1>2. registry_agents \in [1..MaxAgents -> RegistryRecords] /\ space \in Spaces /\ registry_agents[i] \in RegistryRecords
  BY DEF RegistryInv, RegistryTyped
<1>3. new \in RegistryRecords /\ new.space = space /\ new.task = registry_agents[i].task
  BY <1>2 DEF RegistryRecords, RegistryPlaces
<1>4. registry_agents' = [registry_agents EXCEPT ![i] = new]
  BY <1>1, <1>2
<1> HIDE DEF new
<1>5. registry_agents' \in [1..MaxAgents -> RegistryRecords] /\ registry_agents'[i] = new
      /\ \A j \in 1..MaxAgents \ {i} : registry_agents'[j] = registry_agents[j]
  BY <1>2, <1>3, <1>4
<1>6. registry_agents[i].there /\ UNCHANGED <<spaces, registry_edition, used, push>>
  BY DEF Registry!Update, Registry!There, Registry!Act
<1> QED BY <1>3, <1>5, <1>6, OneRecordKept

LEMMA RemovalKeeps ==
  ASSUME RegistryInv, NEW i \in 1..MaxAgents, Registry!Delete(i) \/ Registry!Uninstall(i)
  PROVE  RegistryInv'
<1>1. registry_agents \in [1..MaxAgents -> RegistryRecords]
  BY DEF RegistryInv, RegistryTyped
<1>2. UNCHANGED <<spaces, registry_edition, used, push>>
      /\ (registry_agents' = registry_agents \/ registry_agents' = [registry_agents EXCEPT ![i] = Registry!Gone])
  BY DEF Registry!Delete, Registry!Uninstall, Registry!Act
<1>3. CASE registry_agents' = registry_agents
  BY <1>1, <1>2, <1>3, OneRecordKept DEF RegistryInv, BoundToASpace
<1>4. CASE registry_agents' = [registry_agents EXCEPT ![i] = Registry!Gone]
  BY <1>1, <1>4, GoneIsARecord, <1>2, OneRecordKept
<1> QED BY <1>2, <1>3, <1>4

LEMMA WorkKeeps ==
  ASSUME RegistryInv, NEW i \in 1..MaxAgents, Registry!Work(i)
  PROVE  RegistryInv'
<1>1. registry_agents \in [1..MaxAgents -> RegistryRecords] /\ registry_agents[i] \in RegistryRecords
      /\ registry_agents[i].there /\ registry_agents[i].space \in spaces
      /\ UNCHANGED <<spaces, registry_edition, used, push>>
  BY DEF RegistryInv, RegistryTyped, BoundToASpace, Registry!Work, Registry!There, Registry!Act
<1>2. PICK flag \in BOOLEAN : \/ registry_agents' = [registry_agents EXCEPT ![i].upgrading = flag]
                              \/ registry_agents' = [registry_agents EXCEPT ![i].following = flag]
                              \/ registry_agents' = [registry_agents EXCEPT ![i].task.open = flag]
  BY DEF Registry!Work
<1>3. PICK r \in RegistryRecords : /\ registry_agents' = [registry_agents EXCEPT ![i] = r]
                                   /\ r.space = registry_agents[i].space
                                   /\ r.task.space = registry_agents[i].task.space
                                   /\ r.task.service = registry_agents[i].task.service
  <2>1. CASE registry_agents' = [registry_agents EXCEPT ![i].upgrading = flag]
    <3> DEFINE r == [registry_agents[i] EXCEPT !.upgrading = flag]
    <3>1. r \in RegistryRecords /\ r.space = registry_agents[i].space /\ r.task = registry_agents[i].task
      BY <1>1 DEF RegistryRecords
    <3>2. registry_agents' = [registry_agents EXCEPT ![i] = r]
      BY <2>1, <1>1
    <3> QED BY <3>1, <3>2
  <2>2. CASE registry_agents' = [registry_agents EXCEPT ![i].following = flag]
    <3> DEFINE r == [registry_agents[i] EXCEPT !.following = flag]
    <3>1. r \in RegistryRecords /\ r.space = registry_agents[i].space /\ r.task = registry_agents[i].task
      BY <1>1 DEF RegistryRecords
    <3>2. registry_agents' = [registry_agents EXCEPT ![i] = r]
      BY <2>2, <1>1
    <3> QED BY <3>1, <3>2
  <2>3. CASE registry_agents' = [registry_agents EXCEPT ![i].task.open = flag]
    <3> DEFINE r == [registry_agents[i] EXCEPT !.task.open = flag]
    <3>1. r \in RegistryRecords /\ r.space = registry_agents[i].space
          /\ r.task.space = registry_agents[i].task.space /\ r.task.service = registry_agents[i].task.service
      BY <1>1 DEF RegistryRecords, RegistryTasks
    <3>2. registry_agents' = [registry_agents EXCEPT ![i] = r]
      BY <2>3, <1>1
    <3> QED BY <3>1, <3>2
  <2> QED BY <1>2, <2>1, <2>2, <2>3
<1>4. registry_agents' \in [1..MaxAgents -> RegistryRecords] /\ registry_agents'[i] = r
      /\ \A j \in 1..MaxAgents \ {i} : registry_agents'[j] = registry_agents[j]
  BY <1>1, <1>3
<1> QED BY <1>1, <1>3, <1>4, OneRecordKept

LEMMA RebindKeeps ==
  ASSUME RegistryInv, Registry!Rebind
  PROVE  RegistryInv'
BY RecordsKept DEF Registry!Rebind, Registry!Moves, Registry!Ids, Registry!Act, RegistryInv, RegistryTyped,
   BoundToASpace, RegistryRecords, RegistryPlaces, IdsAreSpent

LEMMA SpacesKeep ==
  ASSUME RegistryInv, NEW space \in Spaces, Registry!DeleteSpace(space) \/ Registry!EditSpace(space)
  PROVE  RegistryInv'
<1>1. CASE Registry!DeleteSpace(space)
  BY <1>1, RecordsKept DEF RegistryInv, BoundToASpace, Registry!DeleteSpace, Registry!Bound, Registry!There,
     Registry!Ids, Registry!Act, RegistryTyped, IdsAreSpent
<1>2. CASE Registry!EditSpace(space)
  BY <1>2, RecordsKept DEF Registry!EditSpace, Registry!Act, RegistryInv, RegistryTyped, IdsAreSpent, BoundToASpace
<1> QED BY <1>1, <1>2

LEMMA ReviewKeeps ==
  ASSUME RegistryInv, Registry!Review \/ UNCHANGED RegistryVars
  PROVE  RegistryInv'
BY DEF Registry!Review, RegistryVars, RegistryInv, RegistryTyped, IdsAreSpent, BoundToASpace, PushIsCurrent,
   Registry!AsShown

(* The publish request: what each step reads is kept until the request ends.          *)
LEMMA NoPushIsAPush == Registry!NoPush \in PushRecords /\ Registry!NoPush.pc = "idle"
  BY DEF Registry!NoPush, PushRecords, RegistryPlaces, Registry!Services

LEMMA ReadingKeeps ==
  ASSUME RegistryInv,
         (\E i \in 1..MaxAgents : Registry!OpenPage(i)) \/ Registry!ReadAgent \/ Registry!Snapshot
  PROVE  RegistryInv'
<1>0. /\ UNCHANGED <<spaces, registry_edition, used, registry_agents>>
      /\ registry_agents \in [1..MaxAgents -> RegistryRecords]
      /\ registry_edition \in [Spaces -> Nat] /\ spaces \subseteq Spaces /\ push \in PushRecords
  BY DEF Registry!OpenPage, Registry!ReadAgent, Registry!Snapshot, Registry!Still, Registry!Act, RegistryInv, RegistryTyped
<1>1. CASE \E i \in 1..MaxAgents : Registry!OpenPage(i)
  <2>1. PICK i \in 1..MaxAgents : Registry!OpenPage(i)
    BY <1>1
  <2>2. registry_agents[i].there /\ registry_agents[i] \in RegistryRecords /\ registry_agents[i].space \in Spaces
        /\ i <= used /\ registry_edition[registry_agents[i].space] \in Nat
    BY <1>0, <2>1 DEF Registry!OpenPage, Registry!There, RegistryInv, BoundToASpace, IdsAreSpent
  <2>3. PICK guarded \in BOOLEAN :
          push' = [Registry!NoPush EXCEPT !.pc = "page", !.id = i, !.guarded = guarded,
                     !.page = [space |-> registry_agents[i].space, service |-> registry_agents[i].service,
                               edition |-> registry_edition[registry_agents[i].space]]]
    BY <2>1 DEF Registry!OpenPage
  <2>4. registry_agents[i].service \in Registry!Services
    BY <2>2 DEF RegistryRecords
  <2>5. push' \in PushRecords /\ push'.pc = "page" /\ push'.id = i
    <3> DEFINE onPage == [space |-> registry_agents[i].space, service |-> registry_agents[i].service,
                          edition |-> registry_edition[registry_agents[i].space]]
    <3>1. onPage \in [space : RegistryPlaces, service : Registry!Services, edition : Nat]
      BY <2>2, <2>4 DEF RegistryPlaces
    <3>2. push' = [Registry!NoPush EXCEPT !.pc = "page", !.id = i, !.guarded = guarded, !.page = onPage]
      BY <2>3
    <3> HIDE DEF onPage
    <3>3. push' = [pc |-> "page", id |-> i, guarded |-> guarded, page |-> onPage,
                   space |-> FirstSpace, service |-> "mihomo", edition |-> 0]
      BY <3>2 DEF Registry!NoPush
    <3> QED BY <3>1, <3>3 DEF PushRecords, RegistryPlaces, Registry!Services
  <2>6. PushIsCurrent'
    BY <1>0, <2>2, <2>5 DEF PushIsCurrent
  <2> QED BY <1>0, <2>5, <2>6, OnlyPush
<1>2. CASE Registry!ReadAgent \/ Registry!Snapshot
  <2>1. CASE push' = Registry!NoPush
    <3>1. PushIsCurrent'
      BY <2>1, NoPushIsAPush DEF PushIsCurrent
    <3> QED BY <1>0, <2>1, <3>1, NoPushIsAPush, OnlyPush
  <2>2. CASE Registry!ReadAgent /\ push' # Registry!NoPush
    BY <2>2, <1>0, OnlyPush DEF RegistryInv, PushIsCurrent, Registry!ReadAgent, PushRecords, RegistryRecords
  <2>3. CASE Registry!Snapshot /\ push' # Registry!NoPush
    BY <2>3, <1>0, OnlyPush DEF RegistryInv, PushIsCurrent, Registry!Snapshot, Registry!AsShown, PushRecords
  <2> QED BY <1>2, <2>1, <2>2, <2>3
<1> QED BY <1>1, <1>2

LEMMA ReserveKeeps ==
  ASSUME RegistryInv, Registry!Reserve
  PROVE  RegistryInv'
<1>0. /\ UNCHANGED <<spaces, registry_edition, used>>
      /\ registry_agents \in [1..MaxAgents -> RegistryRecords] /\ push \in PushRecords
      /\ push.pc = "snapshot" /\ push.id \in 1..MaxAgents /\ push.id <= used /\ Registry!AsShown(push)
  BY DEF Registry!Reserve, Registry!Still, RegistryInv, RegistryTyped, PushIsCurrent
<1>1. CASE push' = Registry!NoPush
  BY <1>0, NoPushIsAPush, <1>1, OnlyPush DEF PushRecords, PushIsCurrent, Registry!Reserve
<1>2. CASE push' # Registry!NoPush
  <2> DEFINE new == [registry_agents[push.id] EXCEPT !.task =
                       [open |-> TRUE, space |-> registry_agents[push.id].space,
                        service |-> registry_agents[push.id].service]]
  <2>1. registry_agents' = [registry_agents EXCEPT ![push.id] = new] /\ push' = [push EXCEPT !.pc = "reserved"]
    BY <1>0, <1>2 DEF Registry!Reserve
  <2>2. registry_agents[push.id] \in RegistryRecords
    BY <1>0
  <2>3. new \in RegistryRecords /\ new.there = registry_agents[push.id].there
        /\ new.space = registry_agents[push.id].space
    BY <2>2 DEF RegistryRecords, RegistryTasks
  <2> HIDE DEF new
  <2>4. registry_agents' \in [1..MaxAgents -> RegistryRecords]
        /\ \A i \in 1..MaxAgents : registry_agents'[i].there => registry_agents[i].there
                                  /\ registry_agents'[i].space = registry_agents[i].space
    BY <1>0, <2>1, <2>3
  <2>5. push' \in PushRecords /\ push'.pc = "reserved" /\ push'.id = push.id /\ Registry!AsShown(push)'
    BY <1>0, <2>1 DEF PushRecords, Registry!AsShown
  <2>6. PushIsCurrent'
    BY <1>0, <2>5 DEF PushIsCurrent
  <2> QED BY <1>0, <2>4, <2>5, <2>6, OnlyPush
<1> QED BY <1>1, <1>2

LEMMA CheckKeeps ==
  ASSUME RegistryInv, Registry!CheckBinding
  PROVE  RegistryInv'
<1>0. /\ UNCHANGED <<spaces, registry_edition, used>>
      /\ registry_agents \in [1..MaxAgents -> RegistryRecords] /\ push \in PushRecords
      /\ push.pc = "reserved" /\ push.id \in 1..MaxAgents /\ push.id <= used /\ Registry!AsShown(push)
  BY DEF Registry!CheckBinding, Registry!Still, RegistryInv, RegistryTyped, PushIsCurrent
<1>1. CASE push' = Registry!NoPush
  <2>1. PushIsCurrent'
    BY <1>1, NoPushIsAPush DEF PushIsCurrent
  <2>2. CASE UNCHANGED registry_agents
    BY <1>0, <1>1, <2>1, <2>2, NoPushIsAPush, OnlyPush
  <2>3. CASE registry_agents' = [registry_agents EXCEPT ![push.id].task.open = FALSE]
    <3> DEFINE new == [registry_agents[push.id] EXCEPT !.task.open = FALSE]
    <3>1. registry_agents' = [registry_agents EXCEPT ![push.id] = new] /\ registry_agents[push.id] \in RegistryRecords
      BY <1>0, <2>3
    <3>2. new \in RegistryRecords /\ new.there = registry_agents[push.id].there
          /\ new.space = registry_agents[push.id].space
      BY <3>1 DEF RegistryRecords, RegistryTasks
    <3> HIDE DEF new
    <3>3. registry_agents' \in [1..MaxAgents -> RegistryRecords]
          /\ \A i \in 1..MaxAgents : registry_agents'[i].there => registry_agents[i].there
                                    /\ registry_agents'[i].space = registry_agents[i].space
      BY <1>0, <3>1, <3>2
    <3> QED BY <1>0, <1>1, <2>1, <3>3, NoPushIsAPush, OnlyPush
  <2> QED BY <2>2, <2>3 DEF Registry!CheckBinding
<1>2. CASE push' # Registry!NoPush
  BY <1>2, <1>0, OnlyPush DEF Registry!CheckBinding, PushRecords, Registry!AsShown, PushIsCurrent
<1> QED BY <1>1, <1>2

LEMMA SendKeeps == RegistryInv /\ Registry!Send => RegistryInv'
BY NoPushIsAPush, OnlyPush DEF Registry!Send, Registry!Still, PushIsCurrent, RegistryInv, RegistryTyped

(* The invariant holds in every step of the registry.                                    *)
LEMMA RegistryKeeps == RegistryInv /\ [Registry!RegistryNext]_RegistryVars => RegistryInv'
<1> SUFFICES ASSUME RegistryInv, [Registry!RegistryNext]_RegistryVars PROVE RegistryInv'
  OBVIOUS
<1>1. CASE \E m \in Machines : Registry!Register(m)
  BY <1>1, RegisterKeeps
<1>2. CASE \E i \in 1..MaxAgents : Registry!Update(i) \/ Registry!Delete(i) \/ Registry!Uninstall(i) \/ Registry!Work(i)
  BY <1>2, UpdateKeeps, RemovalKeeps, WorkKeeps
<1>3. CASE (\E i \in 1..MaxAgents : Registry!OpenPage(i)) \/ Registry!ReadAgent \/ Registry!Snapshot
  BY <1>3, ReadingKeeps
<1>4. CASE \E s \in Spaces : Registry!DeleteSpace(s) \/ Registry!EditSpace(s)
  BY <1>4, SpacesKeep
<1>5. CASE Registry!Review \/ UNCHANGED RegistryVars
  BY <1>5, ReviewKeeps
<1>6. CASE Registry!Rebind \/ Registry!Reserve \/ Registry!CheckBinding \/ Registry!Send
  BY <1>6, RebindKeeps, ReserveKeeps, CheckKeeps, SendKeeps
<1> QED BY <1>1, <1>2, <1>3, <1>4, <1>5, <1>6 DEF Registry!RegistryNext, Registry!Ids

(* What the registry promises of each step follows from the guards of that step, from    *)
(* ids that are given out once, and from what a publish request has checked.               *)
WorkStep == \A i \in Registry!Ids :
  Registry!Busy(i) /\ registry_agents[i].there /\ registry_agents'[i].there
    => registry_agents'[i].space = registry_agents[i].space
PublishStep == Registry!Send /\ sent' # sent /\ sent'.guarded =>
  /\ sent'.page = [space |-> sent'.space, service |-> sent'.service, edition |-> sent'.edition]
  /\ sent'.task.space = sent'.space /\ sent'.task.service = sent'.service

LEMMA PublishesWhatWasShown == RegistryInv => PublishStep
BY DEF PublishStep, Registry!Send, RegistryInv, PushIsCurrent, Registry!AsShown

LEMMA WorkStays == RegistryInv /\ [Registry!RegistryNext]_RegistryVars => WorkStep
<1> SUFFICES ASSUME RegistryInv, [Registry!RegistryNext]_RegistryVars, NEW i \in 1..MaxAgents,
                    Registry!Busy(i), registry_agents[i].there, registry_agents'[i].there
             PROVE  registry_agents'[i].space = registry_agents[i].space
  BY DEF WorkStep, Registry!Ids
<1>0. registry_agents \in [1..MaxAgents -> RegistryRecords] /\ registry_agents[i] \in RegistryRecords /\ i <= used
      /\ used \in Nat
  BY DEF RegistryInv, RegistryTyped, IdsAreSpent
<1>1. ASSUME NEW m \in Machines, Registry!Register(m) PROVE registry_agents'[i].space = registry_agents[i].space
  <2>1. PICK wanted \in Spaces \cup {default}, service \in Registry!Services :
          \/ \E j \in Registry!Matching(m) :
               /\ Registry!Known(m, j, wanted, service)
               /\ registry_agents' = [registry_agents EXCEPT ![j].space = wanted, ![j].service = service]
          \/ registry_agents' = [registry_agents EXCEPT ![used + 1] =
                 [Registry!Gone EXCEPT !.there = TRUE, !.key = m, !.space = wanted, !.service = service]]
    BY <1>1 DEF Registry!Register
  <2>2. CASE \E j \in Registry!Matching(m) :
               /\ Registry!Known(m, j, wanted, service)
               /\ registry_agents' = [registry_agents EXCEPT ![j].space = wanted, ![j].service = service]
    BY <2>2, <1>0 DEF Registry!Matching, Registry!There, Registry!Ids, Registry!Known, RegistryRecords
  <2>3. CASE registry_agents' = [registry_agents EXCEPT ![used + 1] =
               [Registry!Gone EXCEPT !.there = TRUE, !.key = m, !.space = wanted, !.service = service]]
    <3>1. i # used + 1
      BY <1>0
    <3> QED BY <1>0, <2>3, <3>1
  <2> QED BY <2>1, <2>2, <2>3
<1>2. ASSUME NEW j \in 1..MaxAgents, Registry!Update(j) PROVE registry_agents'[i].space = registry_agents[i].space
  BY <1>2, <1>0 DEF Registry!Update, Registry!Busy, RegistryRecords
<1>3. ASSUME NEW j \in 1..MaxAgents, Registry!Delete(j) \/ Registry!Uninstall(j) \/ Registry!OpenPage(j)
      PROVE registry_agents'[i].space = registry_agents[i].space
  BY <1>3, <1>0, GoneIsARecord DEF Registry!Delete, Registry!Uninstall, Registry!OpenPage
<1>4. ASSUME NEW j \in 1..MaxAgents, Registry!Work(j) PROVE registry_agents'[i].space = registry_agents[i].space
  <2>1. PICK flag \in BOOLEAN : \/ registry_agents' = [registry_agents EXCEPT ![j].upgrading = flag]
                                \/ registry_agents' = [registry_agents EXCEPT ![j].following = flag]
                                \/ registry_agents' = [registry_agents EXCEPT ![j].task.open = flag]
    BY <1>4 DEF Registry!Work
  <2>2. CASE i = j
    BY <1>0, <2>1, <2>2 DEF RegistryRecords
  <2>3. CASE i # j
    BY <1>0, <2>1, <2>3
  <2> QED BY <2>2, <2>3
<1>5. CASE Registry!Rebind
  BY <1>5 DEF Registry!Rebind, Registry!Moves, Registry!Ids
<1>6. CASE Registry!Reserve
  BY <1>6, <1>0 DEF Registry!Reserve, RegistryInv, RegistryTyped, PushIsCurrent, RegistryRecords, RegistryTasks
<1>7. CASE Registry!CheckBinding
  <2>1. registry_agents' = registry_agents \/ registry_agents' = [registry_agents EXCEPT ![push.id].task.open = FALSE]
    BY <1>7 DEF Registry!CheckBinding
  <2>2. CASE i = push.id
    BY <1>0, <2>1, <2>2 DEF RegistryRecords
  <2>3. CASE i # push.id
    BY <1>0, <2>1, <2>3
  <2> QED BY <2>2, <2>3
<1>8. CASE \/ \E s \in Spaces : Registry!DeleteSpace(s) \/ Registry!EditSpace(s)
          \/ Registry!Review \/ Registry!ReadAgent \/ Registry!Snapshot \/ Registry!Send \/ UNCHANGED RegistryVars
  BY <1>8 DEF Registry!DeleteSpace, Registry!EditSpace, Registry!Review, Registry!ReadAgent, Registry!Snapshot,
              Registry!Send, RegistryVars
<1> QED BY <1>1, <1>2, <1>3, <1>4, <1>5, <1>6, <1>7, <1>8 DEF Registry!RegistryNext, Registry!Ids

-------------------------------------------------------------------------------
(* The gateway wizard: a session's two tasks stay its own, a healthy task stays     *)
(* healthy and a failed one failed, and a worker reaches OxiDNS and its end only     *)
(* behind healthy tasks.                                                             *)

Statuses == {"none", "preparing", "sent", "ready", "succeeded", "failed", "rolled_back", "rolling_back", "rollback_failed"}
GatewayAgents == [id : Nat, owner : Sessions \cup {0}, bound : BOOLEAN]
GatewayTasks == [status : Statuses, healthy : BOOLEAN]
Workers == [pc : {"idle", "start", "prepare", "wait", "final", "publish"}, service : Gateway!Services]
Recorded == [id : Gateway!Tasks \cup {0}, status : Statuses]
SessionRecords ==
  [phase : {"none", "waiting", "enrolled", "publishing", "publish_failed", "published"}, edition : Nat,
   ids : [Gateway!Services -> Nat], registered : [Gateway!Services -> Nat], deployments : [Gateway!Services -> Recorded]]

GatewayTyped ==
  /\ gateway_edition \in Nat /\ given \in Nat
  /\ session \in [Sessions -> SessionRecords]
  /\ gateway_agents \in [Gateway!Services -> GatewayAgents] /\ credentials \in [Gateway!Services -> Nat]
  /\ tasks \in [Gateway!Tasks -> GatewayTasks] /\ latest \in [Gateway!Services -> Gateway!Tasks \cup {0}]
  /\ worker \in [Sessions -> Workers]

TaskOf(s, v) == session[s].deployments[v].id
HealthIsProven ==
  \A t \in Gateway!Tasks :
    (tasks[t].status = "succeeded" => tasks[t].healthy) /\ (tasks[t].healthy => tasks[t].status # "none")
TasksComeInPairs ==
  \A s \in Sessions :
    /\ TaskOf(s, "mihomo") = 0 <=> TaskOf(s, "oxidns") = 0
    /\ worker[s].pc # "idle" => TaskOf(s, "mihomo") # 0
TasksAreApart ==
  \A s, r \in Sessions, v, w \in Gateway!Services : TaskOf(s, v) # 0 /\ TaskOf(s, v) = TaskOf(r, w) => s = r /\ v = w
FailuresAreTrue ==
  \A s \in Sessions, v \in Gateway!Services :
    session[s].deployments[v].status \in Gateway!Failed
      => TaskOf(s, v) # 0 /\ tasks[TaskOf(s, v)].status \in Gateway!Failed
InOrder(s) ==
  /\ worker[s].pc # "idle" /\ worker[s].service = "oxidns" => tasks[TaskOf(s, "mihomo")].healthy
  /\ worker[s].pc \in {"final", "publish"} => worker[s].service = "oxidns" /\ tasks[TaskOf(s, "oxidns")].healthy
  /\ worker[s].pc = "prepare" => tasks[TaskOf(s, worker[s].service)].status = "preparing"

GatewayInv ==
  /\ GatewayTyped /\ HealthIsProven /\ TasksComeInPairs /\ TasksAreApart /\ FailuresAreTrue
  /\ \A s \in Sessions : InOrder(s)

LEMMA GatewayStarts == Gateway!GatewayInit => GatewayInv
<1> SUFFICES ASSUME Gateway!GatewayInit PROVE GatewayInv
  OBVIOUS
<1> USE DEF Gateway!Services
<1>1. Gateway!NoSession \in SessionRecords
      /\ \A v \in Gateway!Services : Gateway!NoSession.deployments[v] = [id |-> 0, status |-> "none"]
  BY DEF Gateway!NoSession, SessionRecords, Recorded, Statuses
<1>2. GatewayTyped
  BY <1>1 DEF Gateway!GatewayInit, GatewayTyped, GatewayAgents, GatewayTasks, Workers, Statuses, Gateway!NoAgent, Gateway!NoTask
<1>3. \A s \in Sessions : /\ worker[s].pc = "idle"
                         /\ \A v \in Gateway!Services : session[s].deployments[v] = [id |-> 0, status |-> "none"]
  BY <1>1 DEF Gateway!GatewayInit
<1>4. \A t \in Gateway!Tasks : tasks[t].status = "none" /\ ~tasks[t].healthy
  BY DEF Gateway!GatewayInit, Gateway!NoTask
<1>5. HealthIsProven
  BY <1>4 DEF HealthIsProven
<1>6. TasksComeInPairs /\ TasksAreApart /\ FailuresAreTrue
  BY <1>3 DEF TasksComeInPairs, TasksAreApart, FailuresAreTrue, TaskOf, Gateway!Failed
<1>7. \A s \in Sessions : InOrder(s)
  BY <1>3 DEF InOrder
<1> QED BY <1>2, <1>5, <1>6, <1>7 DEF GatewayInv

(* What a session holds.                                                               *)
LEMMA SessionFacts ==
  ASSUME GatewayInv, NEW s \in Sessions
  PROVE  /\ session[s] \in SessionRecords /\ worker[s] \in Workers /\ worker[s].service \in Gateway!Services
         /\ \A v \in Gateway!Services : session[s].deployments[v] \in Recorded /\ TaskOf(s, v) \in Gateway!Tasks \cup {0}
         /\ InOrder(s)
         /\ worker[s].pc # "idle" => \A v \in Gateway!Services : TaskOf(s, v) \in Gateway!Tasks /\ TaskOf(s, v) # 0
BY DEF GatewayInv, GatewayTyped, SessionRecords, Workers, TaskOf, Recorded, TasksComeInPairs, Gateway!Services

(* A step that keeps the tasks' ids keeps the invariant when tasks only move on and       *)
(* every worker stops, stays, or is in order.                                             *)
LEMMA TasksMoveOn ==
  ASSUME GatewayInv, GatewayTyped',
         \A s \in Sessions, v \in Gateway!Services :
           /\ TaskOf(s, v)' = TaskOf(s, v)
           /\ session'[s].deployments[v].status \in Gateway!Failed =>
                \/ session[s].deployments[v].status \in Gateway!Failed
                \/ TaskOf(s, v) # 0 /\ tasks'[TaskOf(s, v)].status \in Gateway!Failed,
         \A t \in Gateway!Tasks :
           /\ tasks[t].healthy => tasks'[t].healthy
           /\ tasks[t].status \in Gateway!Failed => tasks'[t].status \in Gateway!Failed
           /\ tasks'[t].status = "succeeded" => tasks'[t].healthy
           /\ tasks'[t].healthy => tasks'[t].status # "none",
         \A s \in Sessions :
           \/ worker'[s].pc = "idle"
           \/ /\ worker'[s] = worker[s]
              /\ worker[s].pc = "prepare" =>
                   tasks'[TaskOf(s, worker[s].service)].status = tasks[TaskOf(s, worker[s].service)].status
           \/ worker[s].pc # "idle" /\ InOrder(s)'
  PROVE  GatewayInv'
BY SessionFacts DEF HealthIsProven, GatewayInv, TasksComeInPairs, TasksAreApart, Gateway!Services, FailuresAreTrue,
   Gateway!Failed, InOrder

(* A step that leaves the tasks, what is recorded of them, and the workers alone.           *)
LEMMA Untouched ==
  ASSUME GatewayInv, GatewayTyped', UNCHANGED <<tasks, worker>>,
         \A s \in Sessions : session'[s].deployments = session[s].deployments
  PROVE  GatewayInv'
BY TasksMoveOn DEF TaskOf, GatewayInv, HealthIsProven

(* The wizard's pages, the installer and people: none of them touches a task or a worker.     *)
LEMMA CreateKeeps ==
  ASSUME GatewayInv, NEW s \in Sessions, Gateway!Create(s)
  PROVE  GatewayInv'
BY Untouched DEF Gateway!Create, GatewayInv, GatewayTyped, SessionRecords

LEMMA GatewayRegisterKeeps ==
  ASSUME GatewayInv, NEW s \in Sessions, NEW v \in Gateway!Services, Gateway!Register(s, v)
  PROVE  GatewayInv'
<1>1. gateway_agents[v] \in GatewayAgents /\ given \in Nat /\ credentials \in [Gateway!Services -> Nat]
      /\ gateway_agents \in [Gateway!Services -> GatewayAgents]
      /\ session \in [Sessions -> SessionRecords] /\ session[s] \in SessionRecords
  BY DEF GatewayInv, GatewayTyped
<1>2. PICK id \in Nat, owner \in Sessions \cup {0} :
        /\ gateway_agents' = [gateway_agents EXCEPT ![v] = [id |-> id, owner |-> owner, bound |-> TRUE]]
        /\ credentials' \in {credentials, [credentials EXCEPT ![v] = id]}
        /\ session' \in {session, [session EXCEPT ![s].registered[v] = id]}
        /\ given' \in Nat
  <2> DEFINE id == IF gateway_agents[v].id # 0 THEN gateway_agents[v].id ELSE given + 1
  <2> DEFINE owner == IF gateway_agents[v].id # 0 THEN gateway_agents[v].owner ELSE s
  <2>1. id \in Nat /\ owner \in Sessions \cup {0}
    BY <1>1 DEF GatewayAgents
  <2>2. /\ gateway_agents' = [gateway_agents EXCEPT ![v] = [id |-> id, owner |-> owner, bound |-> TRUE]]
        /\ credentials' \in {credentials, [credentials EXCEPT ![v] = id]}
        /\ session' \in {session, [session EXCEPT ![s].registered[v] = id]}
        /\ given' \in Nat
    BY <1>1 DEF Gateway!Register
  <2> QED BY <2>1, <2>2
<1>3. gateway_agents' \in [Gateway!Services -> GatewayAgents] /\ credentials' \in [Gateway!Services -> Nat]
  BY <1>1, <1>2 DEF GatewayAgents
<1>4. UNCHANGED <<gateway_edition, tasks, latest, worker>>
  BY DEF Gateway!Register
<1>5. session' \in [Sessions -> SessionRecords] /\ \A o \in Sessions : session'[o].deployments = session[o].deployments
  <2>1. PICK d : d = [session[s] EXCEPT !.registered[v] = id]
    OBVIOUS
  <2>2. d \in SessionRecords /\ d.deployments = session[s].deployments
    BY <1>1, <1>2, <2>1 DEF SessionRecords
  <2>3. session' = session \/ session' = [session EXCEPT ![s] = d]
    BY <1>1, <1>2, <2>1
  <2> QED BY <1>1, <2>2, <2>3
<1>6. GatewayTyped'
  BY <1>2, <1>3, <1>4, <1>5 DEF GatewayInv, GatewayTyped
<1> QED BY <1>4, <1>5, <1>6, Untouched

LEMMA EnrollKeeps ==
  ASSUME GatewayInv, NEW s \in Sessions, Gateway!Enroll(s)
  PROVE  GatewayInv'
<1> DEFINE new == [session[s] EXCEPT !.ids = credentials, !.phase = IF @ = "waiting" THEN "enrolled" ELSE @]
<1>1. session' = [session EXCEPT ![s] = new] /\ session \in [Sessions -> SessionRecords]
      /\ credentials \in [Gateway!Services -> Nat] /\ gateway_agents \in [Gateway!Services -> GatewayAgents]
      /\ gateway_agents' = [v \in Gateway!Services |-> [gateway_agents[v] EXCEPT !.bound = TRUE]]
  BY DEF Gateway!Enroll, GatewayInv, GatewayTyped
<1>2. new \in SessionRecords /\ new.deployments = session[s].deployments
  BY <1>1 DEF SessionRecords
<1> HIDE DEF new
<1>3. session' \in [Sessions -> SessionRecords] /\ \A r \in Sessions : session'[r].deployments = session[r].deployments
  BY <1>1, <1>2
<1>4. gateway_agents' \in [Gateway!Services -> GatewayAgents]
  BY <1>1 DEF GatewayAgents
<1>5. UNCHANGED <<gateway_edition, given, credentials, tasks, latest, worker>>
  BY DEF Gateway!Enroll
<1>6. GatewayTyped'
  BY <1>3, <1>4, <1>5 DEF GatewayInv, GatewayTyped
<1> QED BY <1>3, <1>5, <1>6, Untouched

LEMMA PeopleKeep ==
  ASSUME GatewayInv,
         \/ Gateway!PrepareDrafts \/ Gateway!EditConfiguration \/ UNCHANGED GatewayVars
         \/ \E v \in Gateway!Services : Gateway!Unbind(v) \/ Gateway!Delete(v)
  PROVE  GatewayInv'
<1>1. CASE Gateway!PrepareDrafts \/ Gateway!EditConfiguration \/ UNCHANGED GatewayVars
  BY <1>1, Untouched DEF Gateway!PrepareDrafts, Gateway!EditConfiguration, GatewayVars, GatewayInv, GatewayTyped
<1>2. ASSUME NEW v \in Gateway!Services, Gateway!Unbind(v) \/ Gateway!Delete(v) PROVE GatewayInv'
  <2>1. gateway_agents \in [Gateway!Services -> GatewayAgents]
        /\ latest \in [Gateway!Services -> Gateway!Tasks \cup {0}]
    BY DEF GatewayInv, GatewayTyped
  <2>2. PICK a \in GatewayAgents : gateway_agents' = [gateway_agents EXCEPT ![v] = a]
    <3>1. CASE Gateway!Unbind(v)
      BY <2>1, <3>1 DEF Gateway!Unbind, GatewayAgents
    <3>2. CASE Gateway!Delete(v)
      BY <3>2 DEF Gateway!Delete, Gateway!NoAgent, GatewayAgents
    <3> QED BY <1>2, <3>1, <3>2
  <2>3. gateway_agents' \in [Gateway!Services -> GatewayAgents]
    BY <2>1, <2>2
  <2>4. UNCHANGED <<gateway_edition, given, session, credentials, tasks, worker>>
        /\ latest' \in [Gateway!Services -> Gateway!Tasks \cup {0}]
    BY <1>2, <2>1 DEF Gateway!Unbind, Gateway!Delete
  <2>5. GatewayTyped'
    BY <2>3, <2>4 DEF GatewayInv, GatewayTyped
  <2> QED BY <2>4, <2>5, Untouched
<1> QED BY <1>1, <1>2

(* One task goes on by itself: published by hand, rolled back, or ended by its Agent. None of   *)
(* these is a task some worker has just begun.                                                   *)
LEMMA OneTaskGoesOn ==
  ASSUME GatewayInv, NEW t \in Gateway!Tasks, NEW r \in GatewayTasks,
         tasks' = [tasks EXCEPT ![t] = r], latest' \in [Gateway!Services -> Gateway!Tasks \cup {0}],
         UNCHANGED <<gateway_edition, given, session, gateway_agents, credentials, worker>>,
         tasks[t].status # "preparing", tasks[t].healthy => r.healthy,
         tasks[t].status \in Gateway!Failed => r.status \in Gateway!Failed,
         r.status = "succeeded" => r.healthy, r.status # "none"
  PROVE  GatewayInv'
BY SessionFacts, TasksMoveOn DEF GatewayInv, GatewayTyped, InOrder, HealthIsProven, TaskOf

LEMMA TasksKeep ==
  ASSUME GatewayInv,
         \/ \E v \in Gateway!Services : Gateway!PublishByHand(v) \/ Gateway!RollBack(v)
         \/ \E t \in Gateway!Tasks : Gateway!AgentEnds(t)
  PROVE  GatewayInv'
<1>0. tasks \in [Gateway!Tasks -> GatewayTasks] /\ latest \in [Gateway!Services -> Gateway!Tasks \cup {0}]
  BY DEF GatewayInv, GatewayTyped
<1>1. ASSUME NEW v \in Gateway!Services, Gateway!PublishByHand(v) PROVE GatewayInv'
  <2>1. PICK t \in Gateway!FreshTasks : tasks' = [tasks EXCEPT ![t].status = "sent"] /\ latest' = [latest EXCEPT ![v] = t]
    BY <1>1 DEF Gateway!PublishByHand
  <2>2. t \in Gateway!Tasks /\ tasks[t].status = "none" /\ tasks[t] \in GatewayTasks
    BY <1>0 DEF Gateway!FreshTasks
  <2>3. PICK r : r = [tasks[t] EXCEPT !.status = "sent"]
    OBVIOUS
  <2>4. r \in GatewayTasks /\ r.status = "sent" /\ r.healthy = tasks[t].healthy
    BY <2>2, <2>3 DEF GatewayTasks, Statuses
  <2>5. tasks' = [tasks EXCEPT ![t] = r]
    BY <1>0, <2>1, <2>3
  <2>6. latest' \in [Gateway!Services -> Gateway!Tasks \cup {0}]
    BY <1>0, <2>1, <2>2
  <2>7. UNCHANGED <<gateway_edition, given, session, gateway_agents, credentials, worker>>
    BY <1>1 DEF Gateway!PublishByHand
  <2> QED BY <2>2, <2>4, <2>5, <2>6, <2>7, OneTaskGoesOn DEF Gateway!Failed
<1>2. ASSUME NEW v \in Gateway!Services, Gateway!RollBack(v) PROVE GatewayInv'
  <2>1. PICK t : t = latest[v]
    OBVIOUS
  <2>2. t \in Gateway!Tasks /\ tasks[t].status = "succeeded" /\ tasks[t] \in GatewayTasks
        /\ tasks' = [tasks EXCEPT ![t].status = "rolling_back"]
    BY <1>0, <1>2, <2>1 DEF Gateway!RollBack
  <2>3. PICK r : r = [tasks[t] EXCEPT !.status = "rolling_back"]
    OBVIOUS
  <2>4. r \in GatewayTasks /\ r.status = "rolling_back" /\ r.healthy = tasks[t].healthy
    BY <2>2, <2>3 DEF GatewayTasks, Statuses
  <2>5. tasks' = [tasks EXCEPT ![t] = r]
    BY <1>0, <2>2, <2>3
  <2>7. UNCHANGED <<gateway_edition, given, session, gateway_agents, credentials, worker, latest>>
    BY <1>2 DEF Gateway!RollBack
  <2> QED BY <1>0, <2>2, <2>4, <2>5, <2>7, OneTaskGoesOn DEF Gateway!Failed
<1>3. ASSUME NEW t \in Gateway!Tasks, Gateway!AgentEnds(t) PROVE GatewayInv'
  <2>1. tasks[t].status \in {"sent", "rolling_back", "rollback_failed"} /\ tasks[t] \in GatewayTasks
    BY <1>0, <1>3 DEF Gateway!AgentEnds, Gateway!Ends
  <2>2. PICK r \in GatewayTasks :
          /\ tasks' = [tasks EXCEPT ![t] = r] /\ (tasks[t].healthy => r.healthy)
          /\ r.status # "none" /\ (r.status = "succeeded" => r.healthy)
          /\ (tasks[t].status = "rollback_failed" => r.status = "rolled_back")
    <3>0. PICK status \in Gateway!Ends[tasks[t].status] :
            tasks' = [tasks EXCEPT ![t] = [status |-> status, healthy |-> @.healthy \/ status = "succeeded"]]
      BY <1>3 DEF Gateway!AgentEnds
    <3>1. /\ status \in {"ready", "succeeded", "failed", "rollback_failed", "rolled_back"}
          /\ tasks[t].status = "rollback_failed" => status = "rolled_back"
      BY <2>1, <3>0 DEF Gateway!Ends
    <3> DEFINE r == [status |-> status, healthy |-> tasks[t].healthy \/ status = "succeeded"]
    <3>2. r \in GatewayTasks /\ r.status = status /\ (tasks[t].healthy => r.healthy) /\ (r.status = "succeeded" => r.healthy)
      BY <2>1, <3>1 DEF GatewayTasks, Statuses
    <3>3. tasks' = [tasks EXCEPT ![t] = r]
      BY <1>0, <3>0
    <3> HIDE DEF r
    <3> QED BY <3>1, <3>2, <3>3
  <2>3. UNCHANGED <<gateway_edition, given, session, gateway_agents, credentials, worker, latest>>
    BY <1>3 DEF Gateway!AgentEnds
  <2> QED BY <1>0, <2>1, <2>2, <2>3, OneTaskGoesOn DEF Gateway!Failed
<1> QED BY <1>1, <1>2, <1>3

(* A worker works on one task t, its session's and no other's: the worker becomes w, its session d,  *)
(* the task r.                                                                                        *)
WorksOn(s, t, w, d, r) ==
  /\ worker[s].pc # "idle" /\ t = TaskOf(s, worker[s].service)
  /\ w \in Workers /\ d \in SessionRecords /\ r \in GatewayTasks
  /\ worker' = [worker EXCEPT ![s] = w] /\ session' = [session EXCEPT ![s] = d] /\ tasks' = [tasks EXCEPT ![t] = r]
  /\ latest' \in [Gateway!Services -> Gateway!Tasks \cup {0}]
  /\ UNCHANGED <<gateway_edition, given, gateway_agents, credentials>>
KeepsTheSession(s, t, d, r) ==
  \A v \in Gateway!Services :
    /\ d.deployments[v].id = TaskOf(s, v)
    /\ d.deployments[v].status \in Gateway!Failed =>
         session[s].deployments[v].status \in Gateway!Failed \/ (t = TaskOf(s, v) /\ r.status \in Gateway!Failed)
MovesOn(t, r) ==
  /\ tasks[t].healthy => r.healthy
  /\ tasks[t].status \in Gateway!Failed => r.status \in Gateway!Failed
  /\ r.status = "succeeded" => r.healthy
  /\ r.healthy => r.status # "none"

LEMMA OneWorkerGoesOn ==
  ASSUME GatewayInv, NEW s \in Sessions, NEW t, NEW w, NEW d, NEW r,
         WorksOn(s, t, w, d, r), KeepsTheSession(s, t, d, r), MovesOn(t, r), w.pc = "idle" \/ InOrder(s)'
  PROVE  GatewayInv'
<1> USE DEF WorksOn
<1>0. /\ tasks \in [Gateway!Tasks -> GatewayTasks] /\ session \in [Sessions -> SessionRecords]
      /\ worker \in [Sessions -> Workers] /\ TasksAreApart /\ HealthIsProven
  BY DEF GatewayInv, GatewayTyped
<1>1. t \in Gateway!Tasks /\ t # 0
  BY SessionFacts
<1>2. tasks' \in [Gateway!Tasks -> GatewayTasks] /\ tasks'[t] = r /\ \A q \in Gateway!Tasks \ {t} : tasks'[q] = tasks[q]
  BY <1>0, <1>1
<1>3. session' \in [Sessions -> SessionRecords] /\ session'[s] = d /\ \A o \in Sessions \ {s} : session'[o] = session[o]
  BY <1>0
<1>4. worker' \in [Sessions -> Workers] /\ worker'[s] = w /\ \A o \in Sessions \ {s} : worker'[o] = worker[o]
  BY <1>0
<1>5. GatewayTyped'
  BY <1>2, <1>3, <1>4 DEF GatewayInv, GatewayTyped
<1>6. \A o \in Sessions, v \in Gateway!Services :
        /\ TaskOf(o, v)' = TaskOf(o, v)
        /\ session'[o].deployments[v].status \in Gateway!Failed =>
             \/ session[o].deployments[v].status \in Gateway!Failed
             \/ TaskOf(o, v) # 0 /\ tasks'[TaskOf(o, v)].status \in Gateway!Failed
  <2> SUFFICES ASSUME NEW o \in Sessions, NEW v \in Gateway!Services
               PROVE  /\ session'[o].deployments[v].id = session[o].deployments[v].id
                      /\ session'[o].deployments[v].status \in Gateway!Failed =>
                           \/ session[o].deployments[v].status \in Gateway!Failed
                           \/ TaskOf(o, v) # 0 /\ tasks'[TaskOf(o, v)].status \in Gateway!Failed
    BY DEF TaskOf
  <2>1. CASE o = s
    BY <1>1, <1>2, <1>3, <2>1 DEF TaskOf, KeepsTheSession
  <2>2. CASE o # s
    BY <1>3, <2>2
  <2> QED BY <2>1, <2>2
<1>7. \A q \in Gateway!Tasks :
        /\ tasks[q].healthy => tasks'[q].healthy
        /\ tasks[q].status \in Gateway!Failed => tasks'[q].status \in Gateway!Failed
        /\ tasks'[q].status = "succeeded" => tasks'[q].healthy
        /\ tasks'[q].healthy => tasks'[q].status # "none"
  BY <1>0, <1>2 DEF HealthIsProven, MovesOn
<1>8. \A o \in Sessions : \/ worker'[o].pc = "idle"
                          \/ /\ worker'[o] = worker[o]
                             /\ worker[o].pc = "prepare" =>
                                  tasks'[TaskOf(o, worker[o].service)].status = tasks[TaskOf(o, worker[o].service)].status
                          \/ worker[o].pc # "idle" /\ InOrder(o)'
  BY <1>4, SessionFacts, <1>0, <1>1, <1>2 DEF TasksAreApart
<1> QED BY <1>5, <1>6, <1>7, <1>8, TasksMoveOn

(* A worker that stops leaves the tasks as they are, save one it fails.                          *)
LEMMA GivingUpKeeps ==
  ASSUME GatewayInv, NEW s \in Sessions, worker[s].pc # "idle", Gateway!GiveUp(s),
         tasks' = tasks \/ (tasks' = [tasks EXCEPT ![Gateway!Task(s)].status = "failed"]
                              /\ tasks[Gateway!Task(s)].status = "preparing"),
         UNCHANGED <<gateway_edition, given, gateway_agents, credentials, latest>>
  PROVE  GatewayInv'
<1>0. /\ tasks \in [Gateway!Tasks -> GatewayTasks] /\ session \in [Sessions -> SessionRecords]
      /\ worker \in [Sessions -> Workers] /\ HealthIsProven /\ latest \in [Gateway!Services -> Gateway!Tasks \cup {0}]
      /\ session[s] \in SessionRecords /\ worker[s] \in Workers
  BY DEF GatewayInv, GatewayTyped
<1>1. PICK t : t = TaskOf(s, worker[s].service)
  OBVIOUS
<1>2. t \in Gateway!Tasks /\ t = Gateway!Task(s) /\ tasks[t] \in GatewayTasks
      /\ (tasks[t].status = "succeeded" => tasks[t].healthy) /\ (tasks[t].healthy => tasks[t].status # "none")
  BY <1>0, <1>1, SessionFacts DEF Gateway!Task, TaskOf, HealthIsProven
<1>3. PICK w : w = [worker[s] EXCEPT !.pc = "idle"]
  OBVIOUS
<1>4. PICK d : d = [session[s] EXCEPT !.phase = "publish_failed"]
  OBVIOUS
<1>5. PICK r : r = tasks'[t]
  OBVIOUS
<1>6. w \in Workers /\ w.pc = "idle" /\ worker' = [worker EXCEPT ![s] = w]
  BY <1>0, <1>3 DEF Workers, Gateway!GiveUp
<1>7. d \in SessionRecords /\ d.deployments = session[s].deployments /\ session' = [session EXCEPT ![s] = d]
  BY <1>0, <1>4 DEF SessionRecords, Gateway!GiveUp
<1>8. r \in GatewayTasks /\ tasks' = [tasks EXCEPT ![t] = r] /\ r.healthy = tasks[t].healthy
      /\ (r.status = tasks[t].status \/ (r.status = "failed" /\ tasks[t].status = "preparing"))
  BY <1>0, <1>2, <1>5 DEF GatewayTasks, Statuses
<1>9. KeepsTheSession(s, t, d, r)
  BY <1>7 DEF TaskOf, KeepsTheSession
<1>10. MovesOn(t, r)
  BY <1>2, <1>8 DEF Gateway!Failed, MovesOn
<1>11. WorksOn(s, t, w, d, r)
  BY <1>0, <1>1, <1>6, <1>7, <1>8 DEF WorksOn
<1> QED BY <1>6, <1>9, <1>10, <1>11, OneWorkerGoesOn

LEMMA StoppingKeeps ==
  ASSUME GatewayInv, NEW s \in Sessions, Gateway!TimeOut(s) \/ Gateway!Finish(s)
  PROVE  GatewayInv'
<1>1. CASE Gateway!TimeOut(s)
  BY <1>1, GivingUpKeeps DEF Gateway!TimeOut, Gateway!Settled
<1>2. CASE Gateway!Finish(s)
  <2>0. /\ worker \in [Sessions -> Workers] /\ session \in [Sessions -> SessionRecords]
        /\ session[s] \in SessionRecords /\ worker[s] \in Workers
    BY DEF GatewayInv, GatewayTyped
  <2>1. PICK phase \in {"published"} : session' = [session EXCEPT ![s].phase = phase]
    BY <1>2 DEF Gateway!Finish
  <2>2. UNCHANGED <<gateway_edition, given, gateway_agents, credentials, latest, tasks>>
        /\ worker' = [worker EXCEPT ![s].pc = "idle"]
    BY <1>2 DEF Gateway!Finish, Gateway!Settled
  <2>3. [session[s] EXCEPT !.phase = phase] \in SessionRecords /\ [worker[s] EXCEPT !.pc = "idle"] \in Workers
    BY <2>0 DEF SessionRecords, Workers
  <2>4. session' \in [Sessions -> SessionRecords] /\ worker' \in [Sessions -> Workers]
    BY <2>0, <2>1, <2>2, <2>3
  <2>5. \A o \in Sessions : /\ session'[o].deployments = session[o].deployments
                            /\ worker'[o] = worker[o] \/ worker'[o].pc = "idle"
    BY <2>0, <2>1, <2>2 DEF SessionRecords, Workers
  <2>6. GatewayTyped'
    BY <2>2, <2>4 DEF GatewayInv, GatewayTyped
  <2>7. \A o \in Sessions, v \in Gateway!Services :
          TaskOf(o, v)' = TaskOf(o, v) /\ session'[o].deployments[v].status = session[o].deployments[v].status
    BY <2>5 DEF TaskOf
  <2> QED BY <2>2, <2>5, <2>6, <2>7, TasksMoveOn DEF GatewayInv, HealthIsProven
<1> QED BY <1>1, <1>2

LEMMA LastLookKeeps ==
  ASSUME GatewayInv, NEW s \in Sessions, Gateway!LastLook(s)
  PROVE  GatewayInv'
<1>0. /\ UNCHANGED <<gateway_edition, given, gateway_agents, credentials, latest, tasks>> /\ worker[s].pc = "final"
      /\ worker \in [Sessions -> Workers] /\ worker[s] \in Workers /\ GatewayTyped /\ HealthIsProven
  BY DEF Gateway!LastLook, Gateway!Settled, GatewayInv, GatewayTyped
<1>1. CASE Gateway!GiveUp(s)
  BY <1>0, <1>1, GivingUpKeeps
<1>2. CASE worker' = [worker EXCEPT ![s].pc = "publish"] /\ UNCHANGED session
  <2>1. worker' \in [Sessions -> Workers] /\ worker'[s].pc = "publish" /\ worker'[s].service = worker[s].service
        /\ \A o \in Sessions \ {s} : worker'[o] = worker[o]
    BY <1>0, <1>2 DEF Workers
  <2>2. GatewayTyped'
    BY <1>0, <1>2, <2>1 DEF GatewayTyped
  <2>3. \A o \in Sessions, v \in Gateway!Services :
          TaskOf(o, v)' = TaskOf(o, v) /\ session'[o].deployments[v].status = session[o].deployments[v].status
    BY <1>2 DEF TaskOf
  <2>4. InOrder(s)'
    BY <1>0, <2>1, <2>3, SessionFacts DEF InOrder, Gateway!Services
  <2> QED BY <1>0, <2>1, <2>2, <2>3, <2>4, TasksMoveOn DEF HealthIsProven
<1> QED BY <1>1, <1>2 DEF Gateway!LastLook

LEMMA RestartKeeps == GatewayInv /\ Gateway!Restart => GatewayInv'
BY TasksMoveOn DEF Gateway!Restart, GatewayInv, GatewayTyped, Workers, TaskOf, HealthIsProven

(* Beginning, sending and waiting: a task is begun once, sent while it is prepared, and the worker   *)
(* goes on only from a task that succeeded.                                                          *)
LEMMA BeginKeeps ==
  ASSUME GatewayInv, NEW s \in Sessions, Gateway!Begin(s)
  PROVE  GatewayInv'
<1>0. /\ tasks \in [Gateway!Tasks -> GatewayTasks] /\ session \in [Sessions -> SessionRecords]
      /\ worker \in [Sessions -> Workers] /\ HealthIsProven /\ latest \in [Gateway!Services -> Gateway!Tasks \cup {0}]
      /\ session[s] \in SessionRecords /\ worker[s] \in Workers
      /\ UNCHANGED <<gateway_edition, given, gateway_agents, credentials>> /\ worker[s].pc = "start"
  BY DEF GatewayInv, GatewayTyped, Gateway!Begin, Gateway!Settled
<1>1. PICK t : t = TaskOf(s, worker[s].service)
  OBVIOUS
<1>2. t \in Gateway!Tasks /\ t = Gateway!Task(s) /\ tasks[t] \in GatewayTasks
      /\ (tasks[t].status = "succeeded" => tasks[t].healthy) /\ (tasks[t].healthy => tasks[t].status # "none")
  BY <1>0, <1>1, SessionFacts DEF Gateway!Task, TaskOf, HealthIsProven
<1>3. CASE Gateway!GiveUp(s) /\ UNCHANGED <<tasks, latest>>
  BY <1>0, <1>3, GivingUpKeeps
<1>4. CASE worker' = [worker EXCEPT ![s].pc = "wait"] /\ UNCHANGED <<session, tasks, latest>>
  BY <1>0, <1>4, SessionFacts, TasksMoveOn DEF Workers, GatewayInv, GatewayTyped, InOrder, TaskOf, HealthIsProven
<1>5. CASE /\ tasks[t].status = "none"
           /\ tasks' = [tasks EXCEPT ![t].status = "preparing"] /\ latest' = [latest EXCEPT ![worker[s].service] = t]
           /\ worker' = [worker EXCEPT ![s].pc = "prepare"] /\ UNCHANGED session
  <2>1. PICK w : w = [worker[s] EXCEPT !.pc = "prepare"]
    OBVIOUS
  <2>2. PICK r : r = [tasks[t] EXCEPT !.status = "preparing"]
    OBVIOUS
  <2>3. PICK d : d = session[s]
    OBVIOUS
  <2>4. w \in Workers /\ w.pc = "prepare" /\ w.service = worker[s].service /\ worker' = [worker EXCEPT ![s] = w]
        /\ w.service \in Gateway!Services
    BY <1>0, <1>5, <2>1 DEF Workers
  <2>5. r \in GatewayTasks /\ r.status = "preparing" /\ r.healthy = tasks[t].healthy /\ tasks' = [tasks EXCEPT ![t] = r]
    BY <1>0, <1>2, <1>5, <2>2 DEF GatewayTasks, Statuses
  <2>6. d \in SessionRecords /\ session' = [session EXCEPT ![s] = d]
        /\ KeepsTheSession(s, t, d, r)
    BY <1>0, <1>5, <2>3 DEF TaskOf, KeepsTheSession
  <2>7. InOrder(s)'
    <3>1. worker'[s] = w /\ tasks'[t] = r /\ \A q \in Gateway!Tasks \ {t} : tasks'[q] = tasks[q]
      BY <1>0, <1>2, <2>4, <2>5
    <3>2. \A v \in Gateway!Services : TaskOf(s, v)' = TaskOf(s, v) /\ TaskOf(s, v) \in Gateway!Tasks
      BY <1>0, <1>5, SessionFacts DEF TaskOf
    <3>3. w.service = "oxidns" => tasks'[TaskOf(s, "mihomo")].healthy
      BY <1>0, <2>4, SessionFacts, <3>1, <3>2, <2>5 DEF InOrder, Gateway!Services
    <3> QED BY <1>1, <2>4, <2>5, <3>1, <3>2, <3>3 DEF InOrder, Gateway!Services
  <2>8. latest' \in [Gateway!Services -> Gateway!Tasks \cup {0}]
    BY <1>0, <1>2, <1>5
  <2>9. MovesOn(t, r)
    BY <1>2, <1>5, <2>5 DEF Gateway!Failed, MovesOn
  <2>10. WorksOn(s, t, w, d, r)
    BY <1>0, <1>1, <2>4, <2>5, <2>6, <2>8 DEF WorksOn
  <2> QED BY <2>6, <2>7, <2>9, <2>10, OneWorkerGoesOn
<1> QED BY <1>2, <1>3, <1>4, <1>5 DEF Gateway!Begin

LEMMA GatewaySendKeeps ==
  ASSUME GatewayInv, NEW s \in Sessions, Gateway!Send(s)
  PROVE  GatewayInv'
<1>0. /\ tasks \in [Gateway!Tasks -> GatewayTasks] /\ session \in [Sessions -> SessionRecords]
      /\ worker \in [Sessions -> Workers] /\ HealthIsProven /\ latest \in [Gateway!Services -> Gateway!Tasks \cup {0}]
      /\ session[s] \in SessionRecords /\ worker[s] \in Workers
      /\ UNCHANGED <<gateway_edition, given, gateway_agents, credentials, latest>> /\ worker[s].pc = "prepare"
  BY DEF GatewayInv, GatewayTyped, Gateway!Send, Gateway!Settled
<1>1. PICK t : t = TaskOf(s, worker[s].service)
  OBVIOUS
<1>2. t \in Gateway!Tasks /\ t = Gateway!Task(s) /\ tasks[t] \in GatewayTasks /\ tasks[t].status = "preparing"
  BY <1>0, <1>1, SessionFacts DEF Gateway!Task, TaskOf, InOrder
<1>3. CASE tasks' = [tasks EXCEPT ![Gateway!Task(s)].status = "failed"] /\ Gateway!GiveUp(s)
  BY <1>0, <1>2, <1>3, GivingUpKeeps
<1>4. CASE /\ tasks' = [tasks EXCEPT ![t].status = "sent"]
           /\ worker' = [worker EXCEPT ![s].pc = "wait"] /\ UNCHANGED session
  <2>1. PICK w : w = [worker[s] EXCEPT !.pc = "wait"]
    OBVIOUS
  <2>2. PICK r : r = [tasks[t] EXCEPT !.status = "sent"]
    OBVIOUS
  <2>3. PICK d : d = session[s]
    OBVIOUS
  <2>4. w \in Workers /\ w.pc = "wait" /\ w.service = worker[s].service /\ worker' = [worker EXCEPT ![s] = w]
        /\ w.service \in Gateway!Services
    BY <1>0, <1>4, <2>1 DEF Workers
  <2>5. r \in GatewayTasks /\ r.status = "sent" /\ r.healthy = tasks[t].healthy /\ tasks' = [tasks EXCEPT ![t] = r]
    BY <1>0, <1>2, <1>4, <2>2 DEF GatewayTasks, Statuses
  <2>6. d \in SessionRecords /\ session' = [session EXCEPT ![s] = d]
        /\ KeepsTheSession(s, t, d, r)
    BY <1>0, <1>4, <2>3 DEF TaskOf, KeepsTheSession
  <2>7. InOrder(s)'
    BY <1>0, <1>2, <2>4, <2>5, <1>4, SessionFacts DEF TaskOf, InOrder, Gateway!Services
  <2>9. MovesOn(t, r)
    BY <1>2, <2>5 DEF Gateway!Failed, MovesOn
  <2>10. WorksOn(s, t, w, d, r)
    BY <1>0, <1>1, <2>4, <2>5, <2>6 DEF WorksOn
  <2> QED BY <2>6, <2>7, <2>9, <2>10, OneWorkerGoesOn
<1> QED BY <1>2, <1>3, <1>4 DEF Gateway!Send

LEMMA WaitKeeps ==
  ASSUME GatewayInv, NEW s \in Sessions, Gateway!Wait(s)
  PROVE  GatewayInv'
<1>0. /\ tasks \in [Gateway!Tasks -> GatewayTasks] /\ session \in [Sessions -> SessionRecords]
      /\ worker \in [Sessions -> Workers] /\ HealthIsProven /\ latest \in [Gateway!Services -> Gateway!Tasks \cup {0}]
      /\ session[s] \in SessionRecords /\ worker[s] \in Workers /\ worker[s].service \in Gateway!Services
      /\ UNCHANGED <<gateway_edition, given, gateway_agents, credentials, latest>> /\ worker[s].pc = "wait"
  BY SessionFacts DEF GatewayInv, GatewayTyped, Gateway!Wait, Gateway!Settled
<1>1. PICK t : t = TaskOf(s, worker[s].service)
  OBVIOUS
<1>2. t \in Gateway!Tasks /\ t = Gateway!Task(s) /\ tasks[t] \in GatewayTasks
      /\ (tasks[t].status = "succeeded" => tasks[t].healthy) /\ (tasks[t].healthy => tasks[t].status # "none")
  BY <1>0, <1>1, SessionFacts DEF Gateway!Task, TaskOf, HealthIsProven
<1>3. PICK status : status = IF tasks[t].status = "preparing" THEN "failed" ELSE tasks[t].status
  OBVIOUS
<1>4. status \in Statuses /\ (tasks[t].status \in Gateway!Failed => status = tasks[t].status)
  BY <1>2, <1>3 DEF GatewayTasks, Statuses, Gateway!Failed
<1>5. PICK seen : seen = [session[s] EXCEPT !.deployments[worker[s].service].status = status]
  OBVIOUS
<1>6. seen \in SessionRecords
      /\ \A v \in Gateway!Services :
           /\ seen.deployments[v].id = TaskOf(s, v)
           /\ seen.deployments[v].status = IF v = worker[s].service THEN status ELSE session[s].deployments[v].status
  <2> DEFINE one == [session[s].deployments[worker[s].service] EXCEPT !.status = status]
  <2>1. session[s].deployments \in [Gateway!Services -> Recorded]
    BY <1>0 DEF SessionRecords
  <2>2. one \in Recorded /\ one.id = TaskOf(s, worker[s].service) /\ one.status = status
    BY <1>0, <1>4, <2>1 DEF Recorded, TaskOf
  <2>3. seen = [session[s] EXCEPT !.deployments = [session[s].deployments EXCEPT ![worker[s].service] = one]]
    BY <1>0, <1>5, <2>1
  <2> HIDE DEF one
  <2>4. [session[s].deployments EXCEPT ![worker[s].service] = one] \in [Gateway!Services -> Recorded]
    BY <2>1, <2>2
  <2>5. seen \in SessionRecords
    BY <1>0, <2>3, <2>4 DEF SessionRecords
  <2>6. seen.deployments = [session[s].deployments EXCEPT ![worker[s].service] = one]
    BY <1>0, <2>3 DEF SessionRecords
  <2> QED BY <1>0, <2>1, <2>2, <2>5, <2>6 DEF TaskOf
<1>7. CASE /\ status \in Gateway!Failed \/ status \in Gateway!Unsettled
           /\ worker' = [worker EXCEPT ![s].pc = "idle"]
           /\ session' = [session EXCEPT ![s] = [seen EXCEPT !.phase = "publish_failed"]]
           /\ tasks' = [tasks EXCEPT ![t].status = status]
  <2>1. PICK w : w = [worker[s] EXCEPT !.pc = "idle"]
    OBVIOUS
  <2>2. PICK d : d = [seen EXCEPT !.phase = "publish_failed"]
    OBVIOUS
  <2>3. PICK r : r = [tasks[t] EXCEPT !.status = status]
    OBVIOUS
  <2>4. w \in Workers /\ w.pc = "idle" /\ worker' = [worker EXCEPT ![s] = w]
    BY <1>0, <1>7, <2>1 DEF Workers
  <2>5. r \in GatewayTasks /\ r.status = status /\ r.healthy = tasks[t].healthy /\ tasks' = [tasks EXCEPT ![t] = r]
    BY <1>0, <1>2, <1>4, <1>7, <2>3 DEF GatewayTasks
  <2>6. d \in SessionRecords /\ d.deployments = seen.deployments /\ session' = [session EXCEPT ![s] = d]
    BY <1>6, <1>7, <2>2 DEF SessionRecords
  <2>7. KeepsTheSession(s, t, d, r)
    BY <1>1, <1>6, <2>5, <2>6 DEF KeepsTheSession
  <2>8. MovesOn(t, r)
    BY <1>2, <1>3, <1>4, <1>7, <2>5 DEF MovesOn, Gateway!Failed, Gateway!Unsettled
  <2>9. WorksOn(s, t, w, d, r)
    BY <1>0, <1>1, <2>4, <2>5, <2>6 DEF WorksOn
  <2> QED BY <2>4, <2>7, <2>8, <2>9, OneWorkerGoesOn
<1>8. CASE /\ status = "succeeded" \/ status \in Gateway!Unsettled
           /\ worker' = [worker EXCEPT ![s] = Gateway!Advance(s, status)]
           /\ session' = [session EXCEPT ![s] = seen]
           /\ tasks' = IF status = "ready" THEN [tasks EXCEPT ![t].status = "sent"] ELSE tasks
  <2>0. status = tasks[t].status /\ status \in {"sent", "ready", "rolling_back", "succeeded"}
    BY <1>3, <1>8 DEF Gateway!Unsettled
  <2>1. PICK w : w = Gateway!Advance(s, status)
    OBVIOUS
  <2>2. PICK r : r = IF status = "ready" THEN [tasks[t] EXCEPT !.status = "sent"] ELSE tasks[t]
    OBVIOUS
  <2>3. /\ w \in Workers /\ worker' = [worker EXCEPT ![s] = w] /\ w.pc \in {"wait", "start", "final"}
        /\ status # "succeeded" => w = worker[s]
        /\ status = "succeeded" => w.service = "oxidns" /\ (w.pc = "final" => worker[s].service = "oxidns")
                                   /\ (w.pc = "start" => worker[s].service = "mihomo") /\ w.pc \in {"start", "final"}
    BY <1>0, <1>8, <2>1 DEF Workers, Gateway!Advance, Gateway!Services
  <2>4. r \in GatewayTasks /\ r.healthy = tasks[t].healthy /\ tasks' = [tasks EXCEPT ![t] = r]
        /\ r.status \in {"sent", "rolling_back", "succeeded"} /\ (r.status = "succeeded" => tasks[t].status = "succeeded")
    BY <1>0, <1>2, <1>8, <2>0, <2>2 DEF GatewayTasks, Statuses
  <2>5. KeepsTheSession(s, t, seen, r)
    BY <1>6, <2>0 DEF KeepsTheSession, Gateway!Failed
  <2>6. MovesOn(t, r)
    BY <1>2, <1>8, <2>0, <2>4 DEF MovesOn, Gateway!Failed
  <2>7. WorksOn(s, t, w, seen, r)
    BY <1>0, <1>1, <1>6, <1>8, <2>3, <2>4 DEF WorksOn
  <2>8. InOrder(s)'
    <3>1. worker'[s] = w /\ tasks'[t] = r /\ \A q \in Gateway!Tasks \ {t} : tasks'[q] = tasks[q]
      BY <1>0, <1>2, <2>3, <2>4
    <3>2. \A v \in Gateway!Services : TaskOf(s, v)' = TaskOf(s, v) /\ TaskOf(s, v) \in Gateway!Tasks
      <4>1. session'[s] = seen
        BY <1>0, <1>8
      <4> QED BY <1>0, <1>6, <4>1, SessionFacts DEF TaskOf
    <3>3. \A v \in Gateway!Services : tasks[TaskOf(s, v)].healthy => tasks'[TaskOf(s, v)].healthy
      BY <2>4, <3>1, <3>2
    <3>4. CASE status = "succeeded"
      <4>1. tasks'[t].healthy
        BY <1>2, <2>0, <2>4, <3>1, <3>4
      <4>2. worker[s].service = "oxidns" => tasks[TaskOf(s, "mihomo")].healthy
        BY <1>0, SessionFacts DEF InOrder
      <4> QED BY <1>0, <1>1, <2>3, <3>1, <3>2, <3>3, <3>4, <4>1, <4>2 DEF InOrder, Gateway!Services
    <3>5. CASE status # "succeeded"
      BY <1>0, <2>3, <3>1, <3>2, <3>3, <3>5, SessionFacts DEF InOrder, Gateway!Services
    <3> QED BY <3>4, <3>5
  <2> QED BY <2>5, <2>6, <2>7, <2>8, OneWorkerGoesOn
<1>9. \/ /\ status \in Gateway!Failed \/ status \in Gateway!Unsettled
         /\ worker' = [worker EXCEPT ![s].pc = "idle"]
         /\ session' = [session EXCEPT ![s] = [seen EXCEPT !.phase = "publish_failed"]]
         /\ tasks' = [tasks EXCEPT ![t].status = status]
      \/ /\ status = "succeeded" \/ status \in Gateway!Unsettled
         /\ worker' = [worker EXCEPT ![s] = Gateway!Advance(s, status)]
         /\ session' = [session EXCEPT ![s] = seen]
         /\ tasks' = IF status = "ready" THEN [tasks EXCEPT ![t].status = "sent"] ELSE tasks
  BY <1>0, <1>5, <1>2, <1>3 DEF Gateway!Wait
<1> QED BY <1>7, <1>8, <1>9

(* Publishing gives a session fresh tasks for what is missing or failed, so its two tasks stay a pair   *)
(* and no other session's.                                                                              *)
LEMMA PublishKeeps ==
  ASSUME GatewayInv, NEW s \in Sessions, Gateway!Publish(s)
  PROVE  GatewayInv'
<1>0. /\ tasks \in [Gateway!Tasks -> GatewayTasks] /\ session \in [Sessions -> SessionRecords]
      /\ worker \in [Sessions -> Workers] /\ session[s] \in SessionRecords
      /\ HealthIsProven /\ TasksComeInPairs /\ TasksAreApart /\ FailuresAreTrue
      /\ UNCHANGED <<gateway_edition, given, gateway_agents, credentials, tasks, latest>>
      /\ worker' = [worker EXCEPT ![s] = [pc |-> "start", service |-> "mihomo"]]
  BY DEF GatewayInv, GatewayTyped, Gateway!Publish
<1> DEFINE new == {v \in Gateway!Services : Gateway!Renewed(s, v)}
<1>1. worker' \in [Sessions -> Workers] /\ worker'[s].pc = "start" /\ worker'[s].service = "mihomo"
      /\ \A o \in Sessions \ {s} : worker'[o] = worker[o]
  BY <1>0 DEF Workers, Gateway!Services
<1>2. PICK deps \in [Gateway!Services -> Recorded] :
        /\ session' = [session EXCEPT ![s].phase = "publishing", ![s].deployments = deps]
        /\ \A v \in Gateway!Services :
             \/ deps[v] = session[s].deployments[v]
             \/ deps[v].id \in Gateway!FreshTasks /\ deps[v].status = "preparing"
        /\ \A v \in Gateway!Services : deps[v].id # 0
        /\ \A v, x \in Gateway!Services : v # x => deps[v].id # deps[x].id
  <2>1. \A v \in Gateway!Services : session[s].deployments[v] \in Recorded /\ session[s].deployments[v].id = TaskOf(s, v)
    BY <1>0 DEF SessionRecords, TaskOf
  <2>2. CASE \E ids \in [new -> Gateway!FreshTasks] :
               /\ \A v, x \in new : v # x => ids[v] # ids[x]
               /\ session' = [session EXCEPT ![s].phase = "publishing", ![s].deployments =
                                [v \in Gateway!Services |-> IF v \in new THEN [id |-> ids[v], status |-> "preparing"] ELSE @[v]]]
    <3>1. PICK ids \in [new -> Gateway!FreshTasks] :
               /\ \A v, x \in new : v # x => ids[v] # ids[x]
               /\ session' = [session EXCEPT ![s].phase = "publishing", ![s].deployments =
                                [v \in Gateway!Services |-> IF v \in new THEN [id |-> ids[v], status |-> "preparing"] ELSE @[v]]]
      BY <2>2
    <3> DEFINE deps == [v \in Gateway!Services |-> IF v \in new THEN [id |-> ids[v], status |-> "preparing"]
                                                   ELSE session[s].deployments[v]]
    <3>2. session' = [session EXCEPT ![s].phase = "publishing", ![s].deployments = deps]
      BY <1>0, <3>1
    <3>3. \A v \in Gateway!Services :
            /\ v \in new => deps[v] = [id |-> ids[v], status |-> "preparing"] /\ ids[v] \in Gateway!FreshTasks
            /\ v \notin new => deps[v] = session[s].deployments[v] /\ session[s].deployments[v].id # 0
      BY DEF Gateway!Renewed
    <3>4. \A t \in Gateway!FreshTasks : t \in Gateway!Tasks /\ t # 0 /\ \A v \in Gateway!Services : session[s].deployments[v].id # t
      BY DEF Gateway!FreshTasks, Gateway!Tasks
    <3>5. deps \in [Gateway!Services -> Recorded]
      BY <2>1, <3>3, <3>4 DEF Recorded, Statuses
    <3>6. \A v, x \in Gateway!Services : v # x => deps[v].id # deps[x].id
      <4> SUFFICES ASSUME NEW v \in Gateway!Services, NEW x \in Gateway!Services, v # x PROVE deps[v].id # deps[x].id
        OBVIOUS
      <4>1. CASE v \in new /\ x \in new
        BY <3>1, <3>3, <4>1
      <4>2. CASE v \notin new /\ x \notin new
        <5>1. TaskOf(s, v) # 0 /\ TaskOf(s, v) # TaskOf(s, x)
          BY <1>0, <2>1, <3>3, <4>2 DEF TasksAreApart
        <5> QED BY <2>1, <3>3, <4>2, <5>1
      <4>3. CASE v \in new <=> x \notin new
        BY <3>3, <3>4, <4>3
      <4> QED BY <4>1, <4>2, <4>3
    <3>7. \A v \in Gateway!Services : deps[v].id # 0
      BY <3>3, <3>4
    <3>8. \A v \in Gateway!Services :
             \/ deps[v] = session[s].deployments[v]
             \/ deps[v].id \in Gateway!FreshTasks /\ deps[v].status = "preparing"
      BY <3>3
    <3> HIDE DEF deps
    <3> QED BY <3>2, <3>5, <3>6, <3>7, <3>8
  <2>3. CASE session' = [session EXCEPT ![s].phase = "publishing"] /\ ~\A v \in Gateway!Services : session[s].deployments[v].id = 0
    <3> DEFINE deps == session[s].deployments
    <3>1. deps \in [Gateway!Services -> Recorded]
      BY <1>0 DEF SessionRecords
    <3>2. session' = [session EXCEPT ![s].phase = "publishing", ![s].deployments = deps]
      BY <1>0, <2>3 DEF SessionRecords
    <3>3. \A v \in Gateway!Services : TaskOf(s, v) # 0
      BY <1>0, <2>1, <2>3 DEF TasksComeInPairs, Gateway!Services
    <3>4. \A v, x \in Gateway!Services : v # x => TaskOf(s, v) # TaskOf(s, x)
      BY <1>0, <3>3 DEF TasksAreApart
    <3> QED BY <3>1, <3>2, <3>3, <3>4 DEF TaskOf
  <2> QED BY <2>2, <2>3 DEF Gateway!Publish
<1>3. [session[s] EXCEPT !.phase = "publishing", !.deployments = deps] \in SessionRecords
  BY <1>0 DEF SessionRecords
<1>4. session' = [session EXCEPT ![s] = [session[s] EXCEPT !.phase = "publishing", !.deployments = deps]]
  BY <1>0, <1>2
<1>5. session' \in [Sessions -> SessionRecords] /\ session'[s].deployments = deps
      /\ \A o \in Sessions \ {s} : session'[o] = session[o]
  BY <1>0, <1>3, <1>4 DEF SessionRecords
<1>6. GatewayTyped'
  BY <1>0, <1>1, <1>5 DEF GatewayInv, GatewayTyped
<1>7. HealthIsProven'
  BY <1>0 DEF HealthIsProven
<1>8. TasksComeInPairs'
  BY <1>0, <1>1, <1>2, <1>5 DEF TasksComeInPairs, TaskOf, Gateway!Services
<1>9. FailuresAreTrue'
  BY <1>0, <1>2, <1>5 DEF FailuresAreTrue, TaskOf, Gateway!Failed
<1>10. TasksAreApart'
  BY <1>2, <1>5, <1>0 DEF TasksAreApart, TaskOf, Gateway!FreshTasks
<1>11. ASSUME NEW o \in Sessions PROVE InOrder(o)'
  BY <1>1, <1>5, SessionFacts, <1>0 DEF InOrder, TaskOf
<1> QED BY <1>6, <1>7, <1>8, <1>9, <1>10, <1>11 DEF GatewayInv

LEMMA GatewayKeeps == GatewayInv /\ [Gateway!GatewayNext]_GatewayVars => GatewayInv'
<1> SUFFICES ASSUME GatewayInv, [Gateway!GatewayNext]_GatewayVars PROVE GatewayInv'
  OBVIOUS
<1>1. CASE \/ Gateway!PrepareDrafts \/ Gateway!EditConfiguration \/ UNCHANGED GatewayVars
          \/ \E v \in Gateway!Services : Gateway!Unbind(v) \/ Gateway!Delete(v)
  BY <1>1, PeopleKeep
<1>2. CASE \/ \E v \in Gateway!Services : Gateway!PublishByHand(v) \/ Gateway!RollBack(v)
          \/ \E t \in Gateway!Tasks : Gateway!AgentEnds(t)
  BY <1>2, TasksKeep
<1>3. CASE Gateway!Restart
  BY <1>3, RestartKeeps
<1>4. CASE \E s \in Sessions : Gateway!Create(s) \/ Gateway!Enroll(s) \/ \E v \in Gateway!Services : Gateway!Register(s, v)
  BY <1>4, CreateKeeps, EnrollKeeps, GatewayRegisterKeeps
<1>5. CASE \E s \in Sessions : Gateway!Publish(s) \/ Gateway!Begin(s) \/ Gateway!Send(s)
  BY <1>5, PublishKeeps, BeginKeeps, GatewaySendKeeps
<1>6. CASE \E s \in Sessions : Gateway!Wait(s) \/ Gateway!TimeOut(s) \/ Gateway!LastLook(s) \/ Gateway!Finish(s)
  BY <1>6, WaitKeeps, StoppingKeeps, LastLookKeeps
<1> QED BY <1>1, <1>2, <1>3, <1>4, <1>5, <1>6 DEF Gateway!GatewayNext

(* What a step does to a session: only publishing gives it other tasks, only enrolling other Agents,   *)
(* only the end of its worker says published, and only a look at the pair gets the worker there.        *)
SessionStep(s) ==
  /\ \A v \in Gateway!Services : TaskOf(s, v)' = TaskOf(s, v) \/ TaskOf(s, v) = 0
                                \/ session[s].deployments[v].status \in Gateway!Failed
  /\ \A v \in Gateway!Services : session'[s].ids[v] = session[s].ids[v] \/ session[s].ids[v] = 0
  /\ session[s].phase # "published" /\ session'[s].phase = "published" =>
       worker[s].pc = "publish"

LEMMA SessionsStep == GatewayInv /\ [Gateway!GatewayNext]_GatewayVars => \A s \in Sessions : SessionStep(s)
<1> SUFFICES ASSUME GatewayInv, [Gateway!GatewayNext]_GatewayVars, NEW s \in Sessions PROVE SessionStep(s)
  OBVIOUS
<1> USE DEF SessionStep, TaskOf
<1>0. session \in [Sessions -> SessionRecords] /\ session[s] \in SessionRecords
  BY DEF GatewayInv, GatewayTyped
<1>1. CASE session' = session
  BY <1>0, <1>1
<1>2. ASSUME NEW o \in Sessions, o # s, NEW d, session' = [session EXCEPT ![o] = d] PROVE SessionStep(s)
  BY <1>0, <1>2
<1>3. ASSUME NEW o \in Sessions, Gateway!Create(o) PROVE SessionStep(s)
  BY <1>3, <1>0 DEF Gateway!Create, SessionRecords
<1>4. ASSUME NEW o \in Sessions, Gateway!Enroll(o) PROVE SessionStep(s)
  BY <1>4, <1>0 DEF Gateway!Enroll, SessionRecords
<1>5. ASSUME NEW o \in Sessions, Gateway!GiveUp(o) PROVE SessionStep(s)
  BY <1>0, <1>5 DEF Gateway!GiveUp, SessionRecords
<1>6. ASSUME NEW o \in Sessions, Gateway!Finish(o) PROVE SessionStep(s)
  BY <1>6, <1>0 DEF Gateway!Finish, SessionRecords
<1>7. ASSUME NEW o \in Sessions, Gateway!Wait(o) PROVE SessionStep(s)
  <2> DEFINE field(status) == [session EXCEPT ![o].deployments[worker[o].service].status = status]
  <2>1. PICK status : session' = field(status) \/ session' = [field(status) EXCEPT ![o].phase = "publish_failed"]
    BY <1>7 DEF Gateway!Wait
  <2>2. worker[o].service \in Gateway!Services /\ session[o] \in SessionRecords
    BY SessionFacts
  <2>3. session[o].deployments \in [Gateway!Services -> Recorded]
    BY <2>2 DEF SessionRecords
  <2>4. field(status)[s].ids = session[s].ids /\ field(status)[s].phase = session[s].phase
        /\ \A v \in Gateway!Services : field(status)[s].deployments[v].id = session[s].deployments[v].id
    BY <1>0, <2>2, <2>3 DEF SessionRecords, Recorded
  <2>5. field(status) = [session EXCEPT ![o] = [session[o] EXCEPT !.deployments[worker[o].service].status = status]]
    BY <1>0
  <2>a. PICK d : d = [session[o] EXCEPT !.deployments[worker[o].service].status = status]
    OBVIOUS
  <2>b. field(status) = [session EXCEPT ![o] = d] /\ d.ids = session[o].ids /\ d.phase = session[o].phase
        /\ \A v \in Gateway!Services : d.deployments[v].id = session[o].deployments[v].id
    BY <2>2, <2>3, <2>5, <2>a DEF SessionRecords, Recorded
  <2> HIDE DEF field
  <2>6. /\ session'[s].ids = session[s].ids /\ session'[s].phase \in {session[s].phase, "publish_failed"}
        /\ \A v \in Gateway!Services : session'[s].deployments[v].id = session[s].deployments[v].id
    <3>1. CASE s # o
      BY <1>0, <2>1, <2>b, <3>1
    <3>2. CASE s = o
      <4>1. PICK e : e = [d EXCEPT !.phase = "publish_failed"]
        OBVIOUS
      <4>2. e.ids = d.ids /\ e.phase = "publish_failed" /\ e.deployments = d.deployments
        BY <2>2, <2>a, <4>1 DEF SessionRecords
      <4>3. session'[s] = d \/ session'[s] = e
        BY <1>0, <2>1, <2>b, <3>2, <4>1
      <4> QED BY <2>b, <3>2, <4>2, <4>3
    <3> QED BY <3>1, <3>2
  <2> QED BY <2>6
<1>8. ASSUME NEW o \in Sessions, Gateway!Publish(o) PROVE SessionStep(s)
  <2> DEFINE renewed(ids) == [v \in Gateway!Services |-> IF v \in {x \in Gateway!Services : Gateway!Renewed(o, x)}
                                THEN [id |-> ids[v], status |-> "preparing"] ELSE session[o].deployments[v]]
  <2>1. \/ session' = [session EXCEPT ![o].phase = "publishing"]
        \/ \E ids : session' = [session EXCEPT ![o].phase = "publishing", ![o].deployments = renewed(ids)]
    BY <1>8, <1>0 DEF Gateway!Publish
  <2>2. CASE s # o
    BY <1>0, <2>1, <2>2
  <2>3. CASE s = o
    BY <1>0, <2>3, <2>1 DEF SessionRecords, Gateway!Renewed
  <2> QED BY <2>2, <2>3
<1>9. ASSUME NEW o \in Sessions, Gateway!Begin(o) \/ Gateway!Send(o) \/ Gateway!TimeOut(o) \/ Gateway!LastLook(o)
      PROVE  SessionStep(s)
  <2>1. session' = session \/ Gateway!GiveUp(o)
    BY <1>9 DEF Gateway!Begin, Gateway!Send, Gateway!TimeOut, Gateway!LastLook
  <2> QED BY <1>1, <1>5, <2>1
<1>16. ASSUME NEW o \in Sessions, NEW v \in Gateway!Services, Gateway!Register(o, v) PROVE SessionStep(s)
  <2>1. PICK id : session' = session \/ session' = [session EXCEPT ![o].registered[v] = id]
    BY <1>16 DEF Gateway!Register
  <2>2. CASE session' = [session EXCEPT ![o].registered[v] = id]
    BY <1>0, <2>2 DEF SessionRecords
  <2> QED BY <1>1, <2>1, <2>2
<1>10. CASE Gateway!PrepareDrafts \/ Gateway!EditConfiguration \/ Gateway!Restart \/ UNCHANGED GatewayVars
  BY <1>1, <1>10 DEF Gateway!PrepareDrafts, Gateway!EditConfiguration, Gateway!Restart, GatewayVars
<1>14. CASE \E v \in Gateway!Services :
         Gateway!Unbind(v) \/ Gateway!Delete(v) \/ Gateway!PublishByHand(v) \/ Gateway!RollBack(v)
  <2>1. session' = session
    BY <1>14 DEF Gateway!Unbind, Gateway!Delete, Gateway!PublishByHand, Gateway!RollBack
  <2> QED BY <1>1, <2>1
<1>15. CASE \E t \in Gateway!Tasks : Gateway!AgentEnds(t)
  <2>1. session' = session
    BY <1>15 DEF Gateway!AgentEnds
  <2> QED BY <1>1, <2>1
<1> HIDE DEF SessionStep, TaskOf
<1>11. CASE \E o \in Sessions : Gateway!Create(o) \/ Gateway!Enroll(o) \/ Gateway!Finish(o)
  BY <1>3, <1>4, <1>6, <1>11
<1>12. CASE \E o \in Sessions : Gateway!Publish(o) \/ Gateway!Wait(o)
  BY <1>7, <1>8, <1>12
<1>13. CASE \E o \in Sessions : Gateway!Begin(o) \/ Gateway!Send(o) \/ Gateway!TimeOut(o) \/ Gateway!LastLook(o)
                               \/ \E v \in Gateway!Services : Gateway!Register(o, v)
  BY <1>9, <1>13, <1>16
<1> QED BY <1>10, <1>11, <1>12, <1>13, <1>14, <1>15 DEF Gateway!GatewayNext

LEMMA PublishesBehindALook ==
  ASSUME GatewayInv, [Gateway!GatewayNext]_GatewayVars, NEW s \in Sessions,
         worker[s].pc # "publish", worker'[s].pc = "publish"
  PROVE  worker[s].pc = "final" /\ Gateway!PairOk(s)
<1> DEFINE Goal == worker[s].pc = "final" /\ Gateway!PairOk(s)
<1>0. worker \in [Sessions -> Workers]
  BY DEF GatewayInv, GatewayTyped
<1>1. ASSUME NEW o \in Sessions, NEW pc, pc # "publish", worker' = [worker EXCEPT ![o].pc = pc] PROVE FALSE
  BY <1>0, <1>1 DEF Workers
<1>2. ASSUME NEW o \in Sessions, Gateway!Begin(o) \/ Gateway!Send(o) \/ Gateway!TimeOut(o) \/ Gateway!Finish(o)
      PROVE  FALSE
  <2>1. \E pc \in {"idle", "wait", "prepare"} : worker' = [worker EXCEPT ![o].pc = pc]
    BY <1>2 DEF Gateway!Begin, Gateway!Send, Gateway!TimeOut, Gateway!Finish, Gateway!GiveUp
  <2> QED BY <1>1, <2>1
<1>3. ASSUME NEW o \in Sessions, Gateway!LastLook(o) PROVE Goal
  <2>1. CASE Gateway!GiveUp(o)
    BY <1>1, <2>1 DEF Gateway!GiveUp
  <2>2. CASE worker' = [worker EXCEPT ![o].pc = "publish"] /\ Gateway!PairOk(o)
    <3>1. o = s
      BY <1>0, <2>2
    <3> QED BY <1>3, <2>2, <3>1 DEF Gateway!LastLook
  <2> QED BY <1>3, <2>1, <2>2 DEF Gateway!LastLook
<1>4. ASSUME NEW o \in Sessions, Gateway!Publish(o) PROVE FALSE
  BY <1>0, <1>4 DEF Gateway!Publish, Workers
<1>5. ASSUME NEW o \in Sessions, Gateway!Wait(o) PROVE FALSE
  <2>1. CASE worker' = [worker EXCEPT ![o].pc = "idle"]
    BY <1>1, <2>1
  <2>2. CASE \E w \in {worker[o], [pc |-> "start", service |-> "oxidns"], [pc |-> "final", service |-> "oxidns"]} :
               worker' = [worker EXCEPT ![o] = w]
    BY <1>0, <2>2
  <2> QED BY <1>5, <2>1, <2>2 DEF Gateway!Wait, Gateway!Advance
<1>6. ASSUME Gateway!Restart PROVE FALSE
  BY <1>0, <1>6 DEF Gateway!Restart, Workers
<1>7. ASSUME worker' = worker PROVE FALSE
  BY <1>7
<1>8. ASSUME NEW o \in Sessions, Gateway!Create(o) \/ Gateway!Enroll(o) \/ \E v \in Gateway!Services : Gateway!Register(o, v)
      PROVE  FALSE
  BY <1>7, <1>8 DEF Gateway!Create, Gateway!Enroll, Gateway!Register
<1>9. ASSUME \/ Gateway!PrepareDrafts \/ Gateway!EditConfiguration \/ UNCHANGED GatewayVars
             \/ \E t \in Gateway!Tasks : Gateway!AgentEnds(t)
             \/ \E v \in Gateway!Services :
                  Gateway!Unbind(v) \/ Gateway!Delete(v) \/ Gateway!PublishByHand(v) \/ Gateway!RollBack(v)
      PROVE  FALSE
  <2>1. worker' = worker
    BY <1>9 DEF Gateway!PrepareDrafts, Gateway!EditConfiguration, GatewayVars, Gateway!AgentEnds, Gateway!Unbind,
                Gateway!Delete, Gateway!PublishByHand, Gateway!RollBack
  <2> QED BY <1>7, <2>1
<1> HIDE DEF Goal
<1>10. ASSUME \E o \in Sessions : Gateway!Begin(o) \/ Gateway!Send(o) \/ Gateway!TimeOut(o) \/ Gateway!Finish(o) PROVE FALSE
  BY <1>2, <1>10
<1>11. ASSUME \E o \in Sessions : Gateway!LastLook(o) \/ Gateway!Publish(o) \/ Gateway!Wait(o) PROVE Goal
  BY <1>3, <1>4, <1>5, <1>11
<1>12. ASSUME \E o \in Sessions : Gateway!Create(o) \/ Gateway!Enroll(o) \/ \E v \in Gateway!Services : Gateway!Register(o, v)
      PROVE  FALSE
  BY <1>8, <1>12
<1>13. Goal
  BY <1>6, <1>9, <1>10, <1>11, <1>12 DEF Gateway!GatewayNext
<1> QED BY <1>13 DEF Goal

(* A task is begun by hand when no session holds it, or by the worker whose turn it is.                 *)
LEMMA TasksAreBegun ==
  ASSUME GatewayInv, [Gateway!GatewayNext]_GatewayVars, NEW t \in Gateway!Tasks,
         tasks[t].status = "none", tasks'[t].status # "none"
  PROVE  \/ t \in Gateway!FreshTasks
         \/ \E s \in Sessions : worker[s].pc \in {"start", "wait", "prepare"} /\ t = TaskOf(s, worker[s].service)
<1>0. tasks \in [Gateway!Tasks -> GatewayTasks] /\ tasks[t] \in GatewayTasks
  BY DEF GatewayInv, GatewayTyped
<1>1. ASSUME NEW v \in Gateway!Services, Gateway!PublishByHand(v) \/ Gateway!RollBack(v) PROVE t \in Gateway!FreshTasks
  BY <1>0, <1>1 DEF Gateway!PublishByHand, Gateway!RollBack
<1>2. ASSUME NEW q \in Gateway!Tasks, Gateway!AgentEnds(q) PROVE FALSE
  BY <1>2, <1>0 DEF Gateway!AgentEnds, Gateway!Ends
<1>3. ASSUME NEW s \in Sessions, Gateway!Begin(s) \/ Gateway!Send(s) \/ Gateway!Wait(s)
      PROVE  worker[s].pc \in {"start", "wait", "prepare"} /\ t = TaskOf(s, worker[s].service)
  BY <1>3, <1>0 DEF Gateway!Begin, Gateway!Send, Gateway!Wait, Gateway!Task, TaskOf
<1>4. CASE tasks' = tasks
  BY <1>4
<1>5. CASE Gateway!PrepareDrafts \/ Gateway!EditConfiguration \/ Gateway!Restart \/ UNCHANGED GatewayVars
  BY <1>4, <1>5 DEF Gateway!PrepareDrafts, Gateway!EditConfiguration, Gateway!Restart, GatewayVars
<1>8. CASE \E s \in Sessions : \/ Gateway!Create(s) \/ Gateway!Enroll(s) \/ Gateway!Publish(s) \/ Gateway!TimeOut(s)
                               \/ Gateway!LastLook(s) \/ Gateway!Finish(s)
                               \/ \E v \in Gateway!Services : Gateway!Register(s, v)
  <2>1. tasks' = tasks
    BY <1>8 DEF Gateway!Create, Gateway!Enroll, Gateway!Publish, Gateway!TimeOut, Gateway!LastLook, Gateway!Finish,
                Gateway!Register
  <2> QED BY <1>4, <2>1
<1>9. CASE \E v \in Gateway!Services : Gateway!Unbind(v) \/ Gateway!Delete(v)
  BY <1>4, <1>9 DEF Gateway!Unbind, Gateway!Delete
<1>6. CASE \E s \in Sessions : Gateway!Begin(s) \/ Gateway!Send(s) \/ Gateway!Wait(s)
  BY <1>3, <1>6
<1>7. CASE \/ \E v \in Gateway!Services : Gateway!PublishByHand(v) \/ Gateway!RollBack(v)
          \/ \E q \in Gateway!Tasks : Gateway!AgentEnds(q)
  BY <1>1, <1>2, <1>7
<1> QED BY <1>5, <1>6, <1>7, <1>8, <1>9 DEF Gateway!GatewayNext

MihomoStep ==
  \A s \in Sessions :
    LET t == session[s].deployments IN
    /\ (t["oxidns"].id # 0 /\ tasks[t["oxidns"].id].status = "none" /\ tasks'[t["oxidns"].id].status # "none"
          => tasks[t["mihomo"].id].healthy)
    /\ (worker[s].pc # "publish" /\ worker'[s].pc = "publish" => \A v \in Gateway!Services : latest[v] = t[v].id)
    /\ (session[s].phase # "published" /\ session'[s].phase = "published"
          => \A v \in Gateway!Services : tasks[t[v].id].healthy)
RetryStep ==
  \A s \in Sessions, v \in Gateway!Services :
    /\ LET t == session[s].deployments[v].id IN
       t # 0 /\ session'[s].deployments[v].id # t => tasks[t].status \in Gateway!Failed
    /\ session[s].ids[v] # 0 => session'[s].ids[v] = session[s].ids[v]

LEMMA MihomoIsFirst == GatewayInv /\ [Gateway!GatewayNext]_GatewayVars => MihomoStep
<1> SUFFICES ASSUME GatewayInv, [Gateway!GatewayNext]_GatewayVars, NEW s \in Sessions
             PROVE  /\ (TaskOf(s, "oxidns") # 0 /\ tasks[TaskOf(s, "oxidns")].status = "none"
                          /\ tasks'[TaskOf(s, "oxidns")].status # "none" => tasks[TaskOf(s, "mihomo")].healthy)
                    /\ (worker[s].pc # "publish" /\ worker'[s].pc = "publish"
                          => \A v \in Gateway!Services : latest[v] = TaskOf(s, v))
                    /\ (session[s].phase # "published" /\ session'[s].phase = "published"
                          => \A v \in Gateway!Services : tasks[TaskOf(s, v)].healthy)
  BY DEF MihomoStep, TaskOf
<1>1. ASSUME TaskOf(s, "oxidns") # 0, tasks[TaskOf(s, "oxidns")].status = "none", tasks'[TaskOf(s, "oxidns")].status # "none"
      PROVE  tasks[TaskOf(s, "mihomo")].healthy
  <2>1. PICK t : t = TaskOf(s, "oxidns")
    OBVIOUS
  <2>2. t \in Gateway!Tasks
    BY <1>1, <2>1, SessionFacts DEF Gateway!Services
  <2>3. t \notin Gateway!FreshTasks
    BY <2>1 DEF Gateway!FreshTasks, Gateway!Services, TaskOf
  <2>4. PICK o \in Sessions : worker[o].pc \in {"start", "wait", "prepare"} /\ t = TaskOf(o, worker[o].service)
    BY <1>1, <2>1, <2>2, <2>3, TasksAreBegun
  <2>5. o = s /\ worker[s].service = "oxidns"
    <3>1. worker[o].service \in Gateway!Services
      BY SessionFacts
    <3> QED BY <1>1, <2>1, <2>4, <3>1 DEF GatewayInv, TasksAreApart, Gateway!Services
  <2> QED BY <2>4, <2>5, SessionFacts DEF InOrder
<1>2. ASSUME session[s].phase # "published", session'[s].phase = "published", NEW v \in Gateway!Services
      PROVE  tasks[TaskOf(s, v)].healthy
  BY <1>2, SessionsStep, SessionFacts DEF SessionStep, InOrder, Gateway!Services
<1>3. ASSUME worker[s].pc # "publish", worker'[s].pc = "publish", NEW v \in Gateway!Services
      PROVE  latest[v] = TaskOf(s, v)
  <2>1. worker[s].pc = "final" /\ Gateway!PairOk(s)
    BY <1>3, PublishesBehindALook
  <2>2. TaskOf(s, v) \in Gateway!Tasks /\ TaskOf(s, v) # 0 /\ tasks[TaskOf(s, v)].healthy
    BY <2>1, SessionFacts DEF InOrder, Gateway!Services
  <2>3. tasks[TaskOf(s, v)].status # "none"
    BY <2>2 DEF GatewayInv, HealthIsProven
  <2> QED BY <2>1, <2>2, <2>3 DEF Gateway!PairOk, TaskOf
<1> QED BY <1>1, <1>2, <1>3

LEMMA RetriesKeep == GatewayInv /\ [Gateway!GatewayNext]_GatewayVars => RetryStep
BY SessionsStep DEF RetryStep, TaskOf, SessionStep, GatewayInv, FailuresAreTrue

(* Each step of the panel is one of the registry and of the wizard, or leaves them alone.             *)
LEMMA StepIsOfEach == [Next]_vars => [Registry!RegistryNext]_RegistryVars /\ [Gateway!GatewayNext]_GatewayVars
  BY DEF Next, vars, RegistryVars, GatewayVars

(* Every Agent is bound to a space that exists and stays there while work is open, a guarded publication  *)
(* delivers what its page showed; OxiDNS starts behind a healthy Mihomo, the wizard decides to say         *)
(* published of two healthy deployments that are the last of their Agents, and a retry replaces only       *)
(* what failed.                                                                                            *)
THEOREM BindingsHold == Spec => BindingsAreRespected
<1>1. Init => RegistryInv /\ GatewayInv
  BY RegistryStarts, GatewayStarts DEF Init
<1>2. RegistryInv /\ GatewayInv /\ [Next]_vars => RegistryInv' /\ GatewayInv'
  BY StepIsOfEach, RegistryKeeps, GatewayKeeps
<1>3. RegistryInv => Registry!BoundSpaceExists
  BY DEF RegistryInv, BoundToASpace, Registry!BoundSpaceExists, Registry!There, Registry!Ids
<1>4. RegistryInv /\ [Next]_vars => WorkStep /\ PublishStep
  BY StepIsOfEach, WorkStays, PublishesWhatWasShown
<1>5. GatewayInv /\ [Next]_vars => MihomoStep /\ RetryStep
  BY StepIsOfEach, MihomoIsFirst, RetriesKeep
<1>6. WorkStep /\ PublishStep => [WorkStep]_RegistryVars /\ [PublishStep]_RegistryVars
  OBVIOUS
<1>7. MihomoStep /\ RetryStep => [MihomoStep]_GatewayVars /\ [RetryStep]_GatewayVars
  OBVIOUS
<1>8. Spec => []Registry!BoundSpaceExists /\ [][WorkStep]_RegistryVars /\ [][PublishStep]_RegistryVars
               /\ [][MihomoStep]_GatewayVars /\ [][RetryStep]_GatewayVars
  BY <1>1, <1>2, <1>3, <1>4, <1>5, <1>6, <1>7, PTL DEF Spec
<1>9. /\ [][WorkStep]_RegistryVars <=> Registry!WorkKeepsItsSpace
      /\ [][PublishStep]_RegistryVars <=> Registry!GuardedPublishIsShown
      /\ [][MihomoStep]_GatewayVars <=> Gateway!MihomoFirst
      /\ [][RetryStep]_GatewayVars <=> Gateway!RetryKeepsWhatWorked
  BY DEF WorkStep, PublishStep, MihomoStep, RetryStep, RegistryVars, GatewayVars, Registry!registryVars,
         Gateway!gatewayVars, Registry!WorkKeepsItsSpace, Registry!GuardedPublishIsShown,
         Gateway!MihomoFirst, Gateway!RetryKeepsWhatWorked
<1> QED BY <1>8, <1>9 DEF BindingsAreRespected
===============================================================================
