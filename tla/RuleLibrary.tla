----------------------------- MODULE RuleLibrary -----------------------------
(* The shared library of rule lists and the files that serve them                 *)
(* (routes/rule_library.py, routes/rules.py, utils/rule_utils.py).                *)
(*                                                                                *)
(* A request changes the library in one transaction and the files afterwards.  A  *)
(* file belongs to the id of its entry; older installations named it after the    *)
(* entry, with the characters a file name cannot have replaced, so that two names *)
(* may mean one old file.                                                         *)
EXTENDS Naturals, FiniteSets

CONSTANTS
  RuleIds, RuleNames,
  OldFile,              \* the old file of each name (sanitize_rule_name)
  RuleUrls, RuleTexts,  \* where a list is downloaded from, and what is entered by hand
  BadTexts,             \* texts a domain list may keep but not be given
  SelectedRules,        \* entries some profile selects: they cannot be deleted
  Editors,              \* concurrent requests
  FirstLibraries,       \* what an upgraded installation may hold
  MaxLibraryEdits       \* bound: requests begun

VARIABLES
  ruleLibrary,          \* the stored entries
  ruleFile,             \* the file of each id
  oldFile,              \* the files named after an entry
  editor,               \* what each request is doing
  overlapped,           \* history: entries two requests worked on at once
  libraryEdits

libraryVars == <<ruleLibrary, ruleFile, oldFile, editor, overlapped, libraryEdits>>

OldFiles == {OldFile[n] : n \in RuleNames}
RuleSources == ({"url"} \X RuleUrls) \cup ({"content"} \X RuleTexts)
RuleEntries == [stored : {TRUE}, name : RuleNames, source : RuleSources, enabled : BOOLEAN]
NoEntry == [stored |-> FALSE, name |-> "none", source |-> <<"none", "none">>, enabled |-> FALSE]
RuleFiles == [owner : RuleIds, source : RuleSources]
NoList == [owner |-> "none", source |-> <<"none", "none">>]
Content(r, entry) == [owner |-> r, source |-> entry.source]
ByHand(entry) == entry.source[1] = "content"

(* Names of entries are unique.                                                   *)
ASSUME LibraryAssumption ==
  /\ "none" \notin RuleIds \cup RuleNames
  /\ \A library \in FirstLibraries :
       /\ library \in [RuleIds -> RuleEntries \cup {NoEntry}]
       /\ \A r, s \in RuleIds : r # s /\ library[r].stored => library[r].name # library[s].name

AtRest == [pc |-> "idle", rule |-> "none", entry |-> NoEntry, old |-> "none", path |-> "file", sure |-> FALSE,
            snapshot |-> [r \in RuleIds |-> NoEntry], left |-> {}, failed |-> {}]
Working(pc, r, entry) == [AtRest EXCEPT !.pc = pc, !.rule = r, !.entry = entry]
Touches(e) == IF e.pc \in {"test", "cache"} THEN {r \in RuleIds : e.snapshot[r].stored} ELSE {e.rule}
Overlapping(editors) ==
  {r \in RuleIds : \E p, q \in Editors : p # q /\ r \in Touches(editors[p]) /\ r \in Touches(editors[q])}

(* Every step of a request: what it does next, and who else works on its entry.   *)
Turn(q, e) ==
  /\ editor' = [editor EXCEPT ![q] = e]
  /\ overlapped' = overlapped \cup Overlapping([editor EXCEPT ![q] = e])
BeginEdit(q, e) ==
  /\ editor[q].pc = "idle" /\ libraryEdits < MaxLibraryEdits
  /\ libraryEdits' = libraryEdits + 1
  /\ Turn(q, e)
Continue(q, e) == Turn(q, e) /\ UNCHANGED libraryEdits
Kept == UNCHANGED <<ruleLibrary, ruleFile, oldFile>>

(* ------------------------------- the library -------------------------------- *)
(* Names are unique; bad text may stay but not come (validate_domain_content).    *)
NameIsFree(r, name) == \A s \in RuleIds \ {r} : ruleLibrary[s].name # name
Permitted(entry, previous) == entry.source[2] \notin BadTexts \/ entry.source = previous.source
StoreEntry(r, entry) ==
  /\ NameIsFree(r, entry.name) /\ Permitted(entry, ruleLibrary[r])
  /\ ruleLibrary' = [ruleLibrary EXCEPT ![r] = entry]
  /\ UNCHANGED <<ruleFile, oldFile>>

AddRule(q, r, entry) ==
  /\ ~ruleLibrary[r].stored /\ StoreEntry(r, entry)
  /\ BeginEdit(q, Working("save", r, entry))

(* A renamed entry first gives up the old file of its old name.                   *)
UpdateRule(q, r, entry) ==
  /\ ruleLibrary[r].stored /\ StoreEntry(r, entry)
  /\ BeginEdit(q, [Working(IF entry.name = ruleLibrary[r].name THEN "save" ELSE "unlink", r, entry)
               EXCEPT !.old = ruleLibrary[r].name])

DeleteRule(q, r) ==
  /\ ruleLibrary[r].stored /\ r \notin SelectedRules
  /\ ruleLibrary' = [ruleLibrary EXCEPT ![r] = NoEntry]
  /\ UNCHANGED <<ruleFile, oldFile>>
  /\ BeginEdit(q, [Working("remove", r, NoEntry) EXCEPT !.old = ruleLibrary[r].name])

RemoveFile(q) ==
  /\ editor[q].pc = "remove"
  /\ ruleFile' = [ruleFile EXCEPT ![editor[q].rule] = NoList]
  /\ Continue(q, [editor[q] EXCEPT !.pc = "unlink"])
  /\ UNCHANGED <<ruleLibrary, oldFile>>
RemoveOldFile(q) ==
  /\ editor[q].pc = "unlink"
  /\ oldFile' = [oldFile EXCEPT ![OldFile[editor[q].old]] = NoList]
  /\ Continue(q, IF editor[q].entry.stored THEN [editor[q] EXCEPT !.pc = "save"] ELSE AtRest)
  /\ UNCHANGED <<ruleLibrary, ruleFile>>

(* save_rule_to_local, with the entry the request stored.                         *)
Write(r, entry) == ruleFile' = [ruleFile EXCEPT ![r] = Content(r, entry)] /\ UNCHANGED <<ruleLibrary, oldFile>>
SaveRule(q) ==
  /\ editor[q].pc = "save"
  /\ Continue(q, AtRest)
  /\ \/ Write(editor[q].rule, editor[q].entry)
     \/ ~ByHand(editor[q].entry) /\ Kept

(* edit_rule_library_content: the text is stored if the entry is what the page    *)
(* was shown (its revision).                                                      *)
OpenDraft(q, r) == ruleLibrary[r].stored /\ Kept /\ BeginEdit(q, Working("draft", r, ruleLibrary[r]))
SaveDraft(q, t) ==
  LET r == editor[q].rule
      entry == [ruleLibrary[r] EXCEPT !.source = <<"content", t>>]
  IN /\ editor[q].pc = "draft" /\ ruleLibrary[r] = editor[q].entry /\ ByHand(ruleLibrary[r])
     /\ StoreEntry(r, entry)
     /\ Continue(q, Working("save", r, entry))
CloseDraft(q) == editor[q].pc = "draft" /\ Kept /\ Continue(q, AtRest)

(* -------------------------------- the readers ------------------------------- *)
(* rule_cache_read_path: the old file is read only when no other entry could mean *)
(* it.  "sure" says that nobody is about to remove it.                            *)
Meaning(file) == {r \in RuleIds : ruleLibrary[r].stored /\ OldFile[ruleLibrary[r].name] = file}
Leaving(file) == \E q \in Editors : editor[q].pc \in {"remove", "unlink"} /\ OldFile[editor[q].old] = file
PathOf(r) ==
  LET file == OldFile[ruleLibrary[r].name]
  IN  IF ruleFile[r] = NoList /\ Meaning(file) = {r} /\ oldFile[file] # NoList THEN "old" ELSE "file"
Reading(pc, r) ==
  [Working(pc, r, ruleLibrary[r]) EXCEPT !.path = PathOf(r), !.sure = ~Leaving(OldFile[ruleLibrary[r].name])]
FileRead(e) == IF e.path = "old" THEN oldFile[OldFile[e.entry.name]] ELSE ruleFile[e.rule]

(* get_local_rule: a list with a URL is downloaded first.                         *)
ServeRule(q, r) ==
  /\ ruleLibrary[r].stored /\ Kept
  /\ BeginEdit(q, Reading(IF ByHand(ruleLibrary[r]) THEN "fallback" ELSE "serve", r))
(* get_ruleset_content: the file if there is one; a download only without it.      *)
UseRule(q, r) ==
  /\ ruleLibrary[r].stored /\ ~ByHand(ruleLibrary[r]) /\ Kept
  /\ FileRead(Reading("use", r)) = NoList
  /\ BeginEdit(q, Reading("use", r))
DownloadRule(q) ==
  /\ editor[q].pc \in {"serve", "use"}
  /\ Write(editor[q].rule, editor[q].entry) /\ Continue(q, AtRest)
DownloadFails(q) ==
  /\ editor[q].pc \in {"serve", "use"} /\ Kept
  /\ Continue(q, IF editor[q].pc = "serve" THEN [editor[q] EXCEPT !.pc = "fallback"] ELSE AtRest)
AnswerFile(q) ==
  /\ editor[q].pc = "fallback" /\ FileRead(editor[q]) # NoList
  /\ Kept /\ Continue(q, AtRest)
Regenerate(q) ==
  /\ editor[q].pc = "fallback" /\ FileRead(editor[q]) = NoList
  /\ Continue(q, AtRest)
  /\ \/ Write(editor[q].rule, editor[q].entry)
     \/ ~ByHand(editor[q].entry) /\ Kept

(* ------------------------------- many at once ------------------------------- *)
(* test_rules and cache_rules work on the library as they read it and end with a  *)
(* save of all of it, of which only what they changed counts (_three_way_merge):  *)
(* entries whose download failed are switched off.                                *)
BeginBatch(q, pc, rules) ==
  /\ rules # {} /\ \A r \in rules : ruleLibrary[r].stored /\ (pc = "test" => ~ByHand(ruleLibrary[r]))
  /\ Kept
  /\ BeginEdit(q, [AtRest EXCEPT !.pc = pc, !.snapshot = ruleLibrary, !.left = rules])
Handled(q, r) == [editor[q] EXCEPT !.left = @ \ {r}]
BatchOne(q, r) ==
  /\ editor[q].pc \in {"test", "cache"} /\ r \in editor[q].left
  /\ Continue(q, Handled(q, r))
  /\ IF editor[q].pc = "cache" THEN Write(r, editor[q].snapshot[r]) ELSE Kept
BatchOneFails(q, r) ==
  /\ editor[q].pc \in {"test", "cache"} /\ r \in editor[q].left /\ ~ByHand(editor[q].snapshot[r])
  /\ Continue(q, [Handled(q, r) EXCEPT !.failed = @ \cup {r}])
  /\ Kept
Merged(current, base, proposed) ==
  [current EXCEPT !.name = IF proposed.name # base.name THEN proposed.name ELSE @,
                  !.source = IF proposed.source # base.source THEN proposed.source ELSE @,
                  !.enabled = IF proposed.enabled # base.enabled THEN proposed.enabled ELSE @]
FinishBatch(q) ==
  LET e == editor[q]
      Proposed(r) == IF r \in e.failed THEN [e.snapshot[r] EXCEPT !.enabled = FALSE] ELSE e.snapshot[r]
  IN /\ e.pc \in {"test", "cache"} /\ e.left = {}
     /\ ruleLibrary' = [r \in RuleIds |-> IF ruleLibrary[r].stored /\ e.snapshot[r].stored
                                          THEN Merged(ruleLibrary[r], e.snapshot[r], Proposed(r)) ELSE ruleLibrary[r]]
     /\ Continue(q, AtRest)
     /\ UNCHANGED <<ruleFile, oldFile>>

(* An installation that was upgraded: old files of the entries there are, or of   *)
(* entries whose names mean the same file.                                        *)
LibraryInit ==
  /\ ruleLibrary \in FirstLibraries
  /\ ruleFile = [r \in RuleIds |-> NoList]
  /\ oldFile \in [OldFiles -> {NoList} \cup {Content(r, ruleLibrary[r]) : r \in {s \in RuleIds : ruleLibrary[s].stored}}]
  /\ \A f \in OldFiles : oldFile[f] = NoList \/ oldFile[f].owner \in Meaning(f)
  /\ editor = [q \in Editors |-> AtRest]
  /\ overlapped = {} /\ libraryEdits = 0

LibraryNext == \E q \in Editors :
  \/ \E r \in RuleIds :
       \/ \E entry \in RuleEntries : AddRule(q, r, entry) \/ UpdateRule(q, r, entry)
       \/ DeleteRule(q, r) \/ OpenDraft(q, r) \/ ServeRule(q, r) \/ UseRule(q, r)
       \/ BatchOne(q, r) \/ BatchOneFails(q, r)
  \/ \E rules \in SUBSET RuleIds, pc \in {"test", "cache"} : BeginBatch(q, pc, rules)
  \/ \E t \in RuleTexts : SaveDraft(q, t)
  \/ RemoveFile(q) \/ RemoveOldFile(q) \/ SaveRule(q) \/ CloseDraft(q) \/ DownloadRule(q) \/ DownloadFails(q)
  \/ AnswerFile(q) \/ Regenerate(q) \/ FinishBatch(q)

(* -------------------------------- properties -------------------------------- *)
(* Whoever asks for an entry is never given the list of another one, although old *)
(* files carry no owner, names may mean the same file, and entries are renamed    *)
(* and deleted before their old files go (rule_cache_read_path).                  *)
ServedIsOwn ==
  \A q \in Editors : editor[q].pc = "fallback" /\ editor[q].sure =>
    FileRead(editor[q]) = NoList \/ FileRead(editor[q]).owner = editor[q].rule

(* Once everybody who worked on an entry is done, the file of a text entered by   *)
(* hand holds that text - unless two requests worked on the entry at once, for    *)
(* the files are written after the transactions, in any order.                    *)
SettledIsCurrent ==
  \A r \in RuleIds \ overlapped :
    /\ ruleLibrary[r].stored /\ ByHand(ruleLibrary[r]) /\ ruleFile[r] # NoList
    /\ \A q \in Editors : r \notin Touches(editor[q])
    => ruleFile[r] = Content(r, ruleLibrary[r])

(* A test or a download of many entries, which ends long after it read them,      *)
(* reverts no edit made meanwhile, brings nothing deleted back and switches off   *)
(* only what failed.                                                              *)
BatchKeepsEdits ==
  [][\A q \in Editors : editor[q].pc \in {"test", "cache"} =>
       \A r \in RuleIds : ruleLibrary'[r] # ruleLibrary[r] =>
         /\ r \in editor[q].failed \/ editor'[q] = editor[q]
         /\ editor'[q] # editor[q] => ruleLibrary'[r] = [ruleLibrary[r] EXCEPT !.enabled = FALSE]]_libraryVars
=============================================================================
