--------------------------- MODULE ConfigRepository ---------------------------
(* The transactions of the profile repository (common/config_repository.py): one *)
(* document under one lock, validated as a whole before it is written; the       *)
(* profile's directory, which is not part of it; and the publication lock of a   *)
(* router, which a publisher holds while it works on the device.                 *)
EXTENDS Naturals, FiniteSets, FiniteSetsExt

CONSTANTS
  Profiles, Fields,     \* profile IDs, the fields of a profile
  Resources,            \* IDs of shared resources
  Needs,                \* resource -> the resources an aggregation or a node refers to
  Endpoints,            \* addresses a router may have
  Clients,              \* requests that edit a profile they read earlier
  MaxEdits              \* bound: transactions that change content

VARIABLES
  doc,                  \* config.json
  lock,                 \* who holds the document lock between two steps
  operation,            \* profile -> who holds its operation lock
  job,                  \* profile -> who holds its router's publication lock
  directory,            \* profile -> its artifacts exist
  client,               \* client -> what it read, and what it changed
  worker,               \* the requests that take several steps
  device,               \* profile -> the router has objects of a publication
  backup,               \* what export_all returned last
  edits,
  dropped               \* ghost: profiles an import left out, whose directories stay

store == <<doc, lock>>
locks == <<operation, job>>
repoVars == <<doc, lock, operation, job, directory, client, worker, device, backup, edits, dropped>>

(* ------------------------------- the document ------------------------------ *)
NoRouter == [endpoint |-> "none", manifest |-> FALSE]
Absent == [present |-> FALSE, rev |-> 0, content |-> [f \in Fields |-> 0], refs |-> {}, router |-> NoRouter]
EmptyProfile == [Absent EXCEPT !.present = TRUE]
Existing(d) == {p \in Profiles : d.profiles[p].present}

(* A profile uses what its groups select and everything those need: members of   *)
(* an aggregation, the subscription of a node, the target of a dialer.           *)
Selected(refs) == refs \cup UNION {Needs[r] \cup UNION {Needs[s] : s \in Needs[r]} : r \in refs}

(* _validate_document.  Version 0 of a resource is no resource.                  *)
Valid(d) ==
  /\ d.default \in Existing(d) /\ d.agent \in Existing(d)
  /\ \A p \in Existing(d) : \A r \in Selected(d.profiles[p].refs) : d.shared.items[r] # 0
  /\ \A r \in Resources : d.shared.items[r] # 0 => \A s \in Needs[r] : d.shared.items[s] # 0

Usage(d, r) == {p \in Existing(d) : r \in Selected(d.profiles[p].refs)}

(* The content a profile generates, and the number that stands for it.  The       *)
(* system's settings are part of the first (_resolve_profile merges them; the      *)
(* converters read the GitHub proxy, the service domain and the token), not of    *)
(* the second.                                                                    *)
Rendered(d, p) ==
  <<d.profiles[p].content, d.profiles[p].refs, d.settings,
    [r \in Selected(d.profiles[p].refs) |-> <<d.shared.items[r], r \in d.shared.enabled>>]>>
Revision(d, p) == d.profiles[p].rev + d.shared.rev

(* _router_commit_guard: ownership stays where the device objects are, and no    *)
(* connection changes while somebody publishes over it.                          *)
RouterChanges(d, e) == {p \in Existing(d) : d.profiles[p].router # NoRouter /\ e.profiles[p].router # d.profiles[p].router}

RouterGuard(d, e, owner) ==
  \A p \in RouterChanges(d, e) :
    /\ d.profiles[p].router.manifest =>
         e.profiles[p].present /\ e.profiles[p].router.endpoint = d.profiles[p].router.endpoint
         /\ (e.profiles[p].router.manifest \/ owner = "publisher")
    /\ job[p] \in {"free", owner}

(* _document(write=True): the new document is written, or nothing is.            *)
Commit(e, owner) == lock = "free" /\ Valid(e) /\ RouterGuard(doc, e, owner) /\ doc' = e

Touch(p, change) == [change EXCEPT !.profiles[p].rev = @ + 1]
Edit == edits < MaxEdits /\ edits' = edits + 1
Others == <<lock, operation, job, directory, worker, device, backup, dropped>>

(* --------------------------------- profiles -------------------------------- *)
(* create_profile, clone_profile, import_client_profile (which may add shared     *)
(* resources in the same transaction).  A clone does not take the router along.   *)
CreateProfile(p) ==
  /\ Edit /\ ~doc.profiles[p].present
  /\ \E source \in {Absent} \cup {doc.profiles[q] : q \in Existing(doc)}, added \in SUBSET Resources :
       LET new == [source EXCEPT !.present = TRUE, !.rev = 0, !.router = NoRouter] IN
       /\ added # {} => source = Absent /\ \A r \in added : doc.shared.items[r] = 0
       /\ Commit([doc EXCEPT !.profiles[p] = [new EXCEPT !.refs = @ \cup added],
                             !.shared.items = [r \in Resources |-> IF r \in added THEN edits + 1 ELSE @[r]],
                             !.shared.enabled = @ \cup added,
                             !.shared.rev = IF added = {} THEN @ ELSE @ + 1], "none")
  /\ UNCHANGED <<client, Others>>

(* A request reads the profile, and writes later what its user changed.           *)
Read(c, p) ==
  /\ lock = "free" /\ client[c].pc = "idle" /\ doc.profiles[p].present
  /\ \E f \in Fields : client' = [client EXCEPT ![c] = [pc |-> "edit", p |-> p, field |-> f, base |-> doc.profiles[p]]]
  /\ UNCHANGED <<doc, edits, Others>>

(* With its baseline, only the difference is applied (_three_way_merge); without  *)
(* one, the whole is stored if nothing was stored since (_revision).              *)
SaveMerged(c) ==
  LET w == client[c] IN
  /\ w.pc = "edit" /\ Edit /\ doc.profiles[w.p].present
  /\ Commit(Touch(w.p, [doc EXCEPT !.profiles[w.p].content[w.field] = edits + 1]), "none")
  /\ client' = [client EXCEPT ![c].pc = "idle"]
  /\ UNCHANGED Others

SaveWhole(c) ==
  LET w == client[c] IN
  /\ w.pc = "edit" /\ Edit /\ doc.profiles[w.p].present
  /\ w.base.rev = doc.profiles[w.p].rev
  /\ Commit(Touch(w.p, [doc EXCEPT !.profiles[w.p].content = [w.base.content EXCEPT ![w.field] = edits + 1]]), "none")
  /\ client' = [client EXCEPT ![c].pc = "idle"]
  /\ UNCHANGED Others

GiveUp(c) ==
  /\ client[c].pc = "edit"
  /\ client' = [client EXCEPT ![c].pc = "idle"]
  /\ UNCHANGED <<doc, edits, Others>>

(* Transactions that read and change a profile at once (update_profile_fields):    *)
(* content, other selected resources, or a router added, removed or moved.        *)
UpdateProfile(p) ==
  /\ Edit /\ doc.profiles[p].present
  /\ \/ \E refs \in SUBSET Resources :
          Commit(Touch(p, [doc EXCEPT !.profiles[p].refs = refs]), "none")
     \/ \E f \in Fields : Commit(Touch(p, [doc EXCEPT !.profiles[p].content[f] = edits + 1]), "none")
     \/ \E e \in Endpoints \cup {"none"} :
          LET old == doc.profiles[p].router IN
          Commit(Touch(p, [doc EXCEPT !.profiles[p].router =
                   [endpoint |-> e, manifest |-> e # "none" /\ old.manifest]]), "none")
  /\ UNCHANGED <<client, Others>>

(* ------------------------------ shared and system --------------------------- *)
(* A resource in use is neither removed nor disabled.                             *)
UpdateShared ==
  /\ Edit
  /\ \E r \in Resources, change \in {"add", "edit", "remove", "disable", "enable"} :
       LET s == doc.shared
           items == [s.items EXCEPT ![r] = IF change = "remove" THEN 0
                                           ELSE IF change \in {"add", "edit"} THEN edits + 1 ELSE @]
       IN /\ (change = "add") = (s.items[r] = 0)
          /\ change \in {"remove", "disable"} => Usage(doc, r) = {}
          /\ Commit([doc EXCEPT !.shared = [items |-> items, rev |-> s.rev + 1,
                       enabled |-> IF change \in {"add", "enable"} THEN s.enabled \cup {r}
                                   ELSE IF change \in {"remove", "disable"} THEN s.enabled \ {r}
                                   ELSE s.enabled]], "none")
  /\ UNCHANGED <<client, Others>>

(* The default profile, the profile an Agent is bound to, and the settings that     *)
(* every profile's generated text uses.  Only the system's own number grows.        *)
UpdateSystem ==
  /\ Edit
  /\ \/ \E p \in Profiles : \/ Commit([doc EXCEPT !.default = p], "none")
                            \/ Commit([doc EXCEPT !.agent = p], "none")
     \/ Commit([doc EXCEPT !.settings = edits + 1], "none")
  /\ UNCHANGED <<client, Others>>

ExportAll ==
  /\ lock = "free" /\ backup # doc /\ backup' = doc
  /\ UNCHANGED <<store, locks, directory, client, worker, device, edits, dropped>>

(* import_all (and reset_all): every revision goes on from the stored one.         *)
ImportAll_OwnRevisions ==
  /\ Edit /\ Commit(backup, "none")
  /\ UNCHANGED <<client, Others>>

ImportAll ==
  /\ Edit
  /\ Commit([backup EXCEPT !.shared.rev = doc.shared.rev + 1,
               !.profiles = [p \in Profiles |-> IF @[p].present
                             THEN [@[p] EXCEPT !.rev = doc.profiles[p].rev + 1] ELSE Absent]], "none")
  /\ dropped' = dropped \cup (Existing(doc) \ Existing(backup))
  /\ UNCHANGED <<client, lock, operation, job, directory, worker, device, backup>>

(* --------------------------- requests of many steps ------------------------- *)
Resting == [pc |-> "idle", p |-> CHOOSE p \in Profiles : TRUE, endpoint |-> "none"]
Set(w, state) == worker' = [worker EXCEPT ![w] = state]
Done(w) == Set(w, Resting)

(* write_generated, write_profile_json: the profile is looked up under its         *)
(* operation lock, and written under it.                                           *)
WriteStart(p) ==
  /\ worker["writer"].pc = "idle" /\ operation[p] = "free" /\ lock = "free" /\ doc.profiles[p].present
  /\ operation' = [operation EXCEPT ![p] = "writer"]
  /\ Set("writer", [Resting EXCEPT !.pc = "write", !.p = p])
  /\ UNCHANGED <<store, job, directory, client, device, backup, edits, dropped>>

WriteEnd ==
  LET p == worker["writer"].p IN
  /\ worker["writer"].pc = "write"
  /\ directory' = [directory EXCEPT ![p] = TRUE]
  /\ operation' = [operation EXCEPT ![p] = "free"]
  /\ Done("writer")
  /\ UNCHANGED <<store, job, client, device, backup, edits, dropped>>

(* delete_profile: operation lock, document lock, the locks of its router, then    *)
(* the directory is put aside before the document is written.                      *)
DeleteStart(p) ==
  /\ worker["deleter"].pc = "idle" /\ operation[p] = "free"
  /\ operation' = [operation EXCEPT ![p] = "deleter"]
  /\ Set("deleter", [Resting EXCEPT !.pc = "lock", !.p = p])
  /\ UNCHANGED <<store, job, directory, client, device, backup, edits, dropped>>

Without(p) == [doc EXCEPT !.profiles[p] = Absent]
DeleteRefused ==
  LET p == worker["deleter"].p IN
  /\ worker["deleter"].pc = "lock" /\ lock = "free"
  /\ ~doc.profiles[p].present \/ doc.agent = p \/ Cardinality(Existing(doc)) < 2
     \/ ~RouterGuard(doc, Without(p), "deleter")
  /\ operation' = [operation EXCEPT ![p] = "free"] /\ Done("deleter")
  /\ UNCHANGED <<store, job, directory, client, device, backup, edits, dropped>>

DeletePrepare ==
  LET p == worker["deleter"].p IN
  /\ worker["deleter"].pc = "lock" /\ lock = "free"
  /\ doc.profiles[p].present /\ doc.agent # p /\ Cardinality(Existing(doc)) > 1
  /\ RouterGuard(doc, Without(p), "deleter")
  /\ lock' = "deleter"
  /\ job' = [job EXCEPT ![p] = IF doc.profiles[p].router # NoRouter THEN "deleter" ELSE @]
  /\ directory' = [directory EXCEPT ![p] = FALSE]
  /\ Set("deleter", [worker["deleter"] EXCEPT !.pc = IF directory[p] THEN "moved" ELSE "empty"])
  /\ UNCHANGED <<doc, operation, client, device, backup, edits, dropped>>

(* The document is written, or the directory is put back.                          *)
DeleteEnd ==
  LET p == worker["deleter"].p
      moved == worker["deleter"].pc = "moved"
      successor == IF doc.default = p THEN Existing(doc) \ {p} ELSE {doc.default} IN
  /\ worker["deleter"].pc \in {"moved", "empty"}
  /\ \/ \E d \in successor : doc' = [Without(p) EXCEPT !.default = d] /\ UNCHANGED directory
     \/ doc' = doc /\ directory' = [directory EXCEPT ![p] = moved]
  /\ lock' = "free"
  /\ operation' = [operation EXCEPT ![p] = "free"]
  /\ job' = [job EXCEPT ![p] = IF @ = "deleter" THEN "free" ELSE @]
  /\ Done("deleter")
  /\ UNCHANGED <<client, device, backup, edits, dropped>>

(* router_apply and the automatic rule synchronisation: the publication lock, the   *)
(* device, then save_router_publication, which nobody may have made impossible.     *)
PublishStart(p) ==
  /\ Edit
  /\ worker["publisher"].pc = "idle" /\ job[p] = "free" /\ lock = "free"
  /\ doc.profiles[p].present /\ doc.profiles[p].router # NoRouter
  /\ job' = [job EXCEPT ![p] = "publisher"]
  /\ Set("publisher", [pc |-> "device", p |-> p, endpoint |-> doc.profiles[p].router.endpoint])
  /\ UNCHANGED <<store, operation, directory, client, device, backup, dropped>>

PublishDevice ==
  LET w == worker["publisher"] IN
  /\ w.pc = "device"
  /\ \E objects \in BOOLEAN : device' = [device EXCEPT ![w.p] = objects]
  /\ Set("publisher", [w EXCEPT !.pc = "save"])
  /\ UNCHANGED <<store, locks, directory, client, backup, edits, dropped>>

Recordable(w) == doc.profiles[w.p].present /\ doc.profiles[w.p].router.endpoint = w.endpoint
PublishSave ==
  LET w == worker["publisher"] IN
  /\ w.pc = "save" /\ lock = "free" /\ Recordable(w)
  /\ doc' = Touch(w.p, [doc EXCEPT !.profiles[w.p].router.manifest = device[w.p]])
  /\ job' = [job EXCEPT ![w.p] = "free"]
  /\ Done("publisher")
  /\ UNCHANGED <<lock, operation, directory, client, device, backup, edits, dropped>>

(* save_router_settings: the caller holds the publication lock for its request.      *)
SaveRouter(p) ==
  LET old == doc.profiles[p].router IN
  /\ Edit /\ lock = "free" /\ doc.profiles[p].present /\ old # NoRouter /\ job[p] = "free"
  /\ \E e \in Endpoints \cup {"none"} :
       /\ e # old.endpoint => ~old.manifest
       /\ Commit(Touch(p, [doc EXCEPT !.profiles[p].router = IF e = "none" THEN NoRouter
                                                           ELSE [old EXCEPT !.endpoint = e]]), "none")
  /\ UNCHANGED <<client, Others>>

(* A fresh document, or one whose first profile has a router already.               *)
Start ==
  LET first == CHOOSE p \in Profiles : TRUE IN
  \E router \in {NoRouter} \cup {[endpoint |-> e, manifest |-> FALSE] : e \in Endpoints} :
  /\ doc = [profiles |-> [p \in Profiles |-> IF p = first THEN [EmptyProfile EXCEPT !.router = router] ELSE Absent],
            shared |-> [items |-> [r \in Resources |-> 0], enabled |-> {}, rev |-> 0],
            default |-> first, agent |-> first, settings |-> 0]
  /\ backup = doc

RepoInit ==
  /\ Start /\ lock = "free"
  /\ operation = [p \in Profiles |-> "free"] /\ job = [p \in Profiles |-> "free"]
  /\ directory = [p \in Profiles |-> FALSE] /\ device = [p \in Profiles |-> FALSE]
  /\ client = [c \in Clients |-> [pc |-> "idle", p |-> Resting.p, field |-> CHOOSE f \in Fields : TRUE, base |-> Absent]]
  /\ worker = [w \in {"writer", "deleter", "publisher"} |-> Resting]
  /\ edits = 0 /\ dropped = {}

RepoNext ==
  \/ \E p \in Profiles :
       \/ CreateProfile(p) \/ UpdateProfile(p) \/ SaveRouter(p)
       \/ WriteStart(p) \/ DeleteStart(p) \/ PublishStart(p)
  \/ \E c \in Clients : SaveMerged(c) \/ SaveWhole(c) \/ GiveUp(c) \/ \E p \in Profiles : Read(c, p)
  \/ UpdateShared \/ UpdateSystem \/ ExportAll \/ ImportAll
  \/ WriteEnd \/ DeleteRefused \/ DeletePrepare \/ DeleteEnd \/ PublishDevice \/ PublishSave

RepoSpec == RepoInit /\ [][RepoNext]_repoVars

(* -------------------------------- properties ------------------------------- *)
(* Whatever changes the content a profile generates makes its revision grow, so    *)
(* an Agent that applied an older one is seen as out of date (config_revision:      *)
(* "配置空间或共享资源任一变化都会让它增大"), an import of an old backup included.  The *)
(* one exception is a transaction that changes nothing but the system's settings:   *)
(* it changes the text every profile generates, and no profile's revision.          *)
EveryChangeIsVisible ==
  [][\A p \in Existing(doc) :
       doc'.profiles[p].present /\ Rendered(doc', p) # Rendered(doc, p) =>
         \/ Revision(doc', p) > Revision(doc, p)
         \/ [doc' EXCEPT !.settings = doc.settings] = doc]_repoVars

(* A save of what a client read earlier never undoes what was stored since          *)
(* (_three_way_merge, the _revision check).                                         *)
NoEditIsLost ==
  [][\A c \in Clients :
       LET w == client[c] IN
       w.pc = "edit" /\ client'[c].pc = "idle" /\ doc' # doc =>
         \A f \in Fields \ {w.field} : doc'.profiles[w.p].content[f] = doc.profiles[w.p].content[f]]_repoVars

(* An edit of the shared resources never disables one that a profile uses           *)
(* (update_shared_transaction with _resource_usage).                                *)
UsedStaysEnabled ==
  [][\A r \in doc.shared.enabled :
       Usage(doc, r) # {} /\ doc'.profiles = doc.profiles => r \in doc'.shared.enabled]_repoVars

(* A directory belongs to a profile: a deletion and a write of an artifact never    *)
(* leave one behind (the operation lock of both); import_all does not clean up.      *)
NoOrphanDirectory ==
  \A p \in Profiles \ dropped : directory[p] => doc.profiles[p].present

(* What a publication did to a device can be recorded: while one runs, nobody       *)
(* removes its router or moves it elsewhere (_router_commit_guard's job locks).     *)
PublicationIsRecorded == worker["publisher"].pc \in {"device", "save"} => Recordable(worker["publisher"])

(* Unless one runs, the record says whether the device has objects of ours, and a   *)
(* record that says so is neither deleted nor moved.                                *)
OwnershipIsKnown ==
  \A p \in Profiles :
    device[p] /\ job[p] # "publisher" => doc.profiles[p].router.manifest
====
