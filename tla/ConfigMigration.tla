--------------------------- MODULE ConfigMigration ---------------------------
(* The start of the repository over whatever an earlier version left             *)
(* (_initialize_locked): the current document or its backup, the files of a        *)
(* split installation, a single old file, or nothing.  The conversion keeps a       *)
(* snapshot of the old files, moves their caches, and writes config.json last; the  *)
(* panel may end between any two of these steps and starts over.                    *)
EXTENDS Naturals, FiniteSets

CONSTANTS MaxEnds, MaxLoss    \* bounds: starts cut short, damaged files

VARIABLES
  main, mainBak,    \* config.json and its backup: "absent", "bad", "old", "new"
  layout,           \* files of a split installation: "none", "good", "bad", "orphans" (no index)
  origin,           \* ghost: what the current document was made from
  snapshots,        \* sources of which there is a complete snapshot
  sharedCache,      \* caches of the shared resources: "none", "stale", "part", "good"
  starting, ends, losses

migrationVars == <<main, mainBak, layout, origin, snapshots, sharedCache, starting, ends, losses>>
oldFiles == <<layout, losses>>
Down == [pc |-> "down", source |-> "none"]

HasLayout == layout \in {"good", "bad"}
Old(kind) == kind \in {"old", "new"}     \* a JSON object of some version

(* What the start works from.  A damaged config.json of a split installation gives   *)
(* way to its backup only when that is in the current format.                        *)
Readable ==
  IF Old(main) THEN main
  ELSE IF main = "absent" /\ mainBak = "absent" THEN "none"
  ELSE IF HasLayout THEN IF mainBak = "new" THEN "new" ELSE "none"
  ELSE IF Old(mainBak) THEN mainBak ELSE "refused"

Source_AnyOldFile ==
  IF Readable = "refused" THEN "refused"
  ELSE IF Readable # "none" THEN IF Readable = "new" THEN "current" ELSE "single"
  ELSE IF HasLayout THEN IF layout = "good" THEN "split" ELSE "refused"
  ELSE "defaults"

Source ==
  IF Readable = "refused" THEN "refused"
  ELSE IF Readable = "new" THEN "current"
  ELSE IF HasLayout THEN IF layout = "good" THEN "split" ELSE "refused"
  ELSE IF layout = "orphans" THEN "refused"
  ELSE IF Readable = "old" THEN "single" ELSE "defaults"

(* _read_recoverable writes the backup over a damaged file; then the start is over,   *)
(* or the conversion begins.                                                          *)
Boot ==
  /\ starting.pc = "down"
  /\ starting' = [pc |-> CASE Source = "refused" -> "failed" [] Source = "current" -> "ready"
                           [] Source = "defaults" -> "caches" [] OTHER -> "snapshot",
                  source |-> Source]
  /\ main' = IF Old(Readable) THEN Readable ELSE main
  /\ UNCHANGED <<mainBak, oldFiles, origin, snapshots, sharedCache, ends>>

(* _snapshot: every file and directory is synced before the conversion goes on.        *)
Snapshot ==
  /\ starting.pc = "snapshot"
  /\ snapshots' = snapshots \cup {starting.source}
  /\ starting' = [starting EXCEPT !.pc = "caches"]
  /\ UNCHANGED <<main, mainBak, oldFiles, origin, sharedCache, ends>>

(* _migrate_profile_cache copies the caches of the chosen definitions and removes the   *)
(* others'; _migrate_raw_cache copies what is not there yet, file after file.           *)
MigrateCaches ==
  /\ starting.pc = "caches"
  /\ sharedCache' = IF starting.source = "split" \/ sharedCache = "none" THEN "good" ELSE sharedCache
  /\ starting' = [starting EXCEPT !.pc = "commit"]
  /\ UNCHANGED <<main, mainBak, oldFiles, origin, snapshots, ends>>

Commit ==
  /\ starting.pc = "commit"
  /\ main' = "new" /\ mainBak' = (IF main = "absent" THEN mainBak ELSE main)
  /\ origin' = starting.source
  /\ starting' = [starting EXCEPT !.pc = "ready"]
  /\ UNCHANGED <<oldFiles, snapshots, sharedCache, ends>>

(* A later change of the document moves the backup on to the current format.            *)
Edited ==
  /\ starting.pc = "ready" /\ mainBak # "new" /\ mainBak' = main
  /\ UNCHANGED <<main, oldFiles, origin, snapshots, sharedCache, starting, ends>>

Ends ==
  /\ starting.pc # "down" /\ ends < MaxEnds /\ ends' = ends + 1
  /\ starting' = Down
  /\ sharedCache' \in IF starting.pc = "caches" THEN {sharedCache, IF sharedCache = "none" THEN "part" ELSE sharedCache}
                      ELSE {sharedCache}
  /\ UNCHANGED <<main, mainBak, oldFiles, origin, snapshots>>

(* A file of the installation is damaged while the panel is down.                        *)
Loss ==
  /\ starting.pc = "down" /\ losses < MaxLoss /\ losses' = losses + 1
  /\ \/ main # "absent" /\ main' = "bad" /\ UNCHANGED layout
     \/ layout = "good" /\ layout' \in {"bad", "orphans"} /\ UNCHANGED main
  /\ UNCHANGED <<mainBak, origin, snapshots, sharedCache, starting, ends>>

MigrationInit ==
  /\ \E was \in
       {<<"absent", "absent", "none", "none">>,     \* nothing
        <<"old", "absent", "none", "none">>,        \* one old file
        <<"old", "old", "none", "none">>,
        <<"absent", "absent", "good", "none">>,     \* a split installation,
        <<"old", "old", "good", "none">>,           \*   with the single file it was made from
        <<"new", "new", "good", "split">>} :       \* an installation of this version
       main = was[1] /\ mainBak = was[2] /\ layout = was[3] /\ origin = was[4]
  /\ snapshots = IF origin = "split" THEN {"split"} ELSE {}
  /\ sharedCache \in {"none", "stale"}
  /\ starting = Down /\ ends = 0 /\ losses = 0

MigrationNext == Boot \/ Snapshot \/ MigrateCaches \/ Commit \/ Edited \/ Ends \/ Loss
MigrationSpec == MigrationInit /\ [][MigrationNext]_migrationVars

(* -------------------------------- properties ------------------------------- *)
(* Nobody gets an empty configuration, or that of the single file from before the    *)
(* split, who had profiles ("不能初始化空配置"; "A stale single-file config is not    *)
(* authoritative in a split installation").                                           *)
NeverFromLess ==
  [][origin' # origin =>
       /\ origin' = "defaults" => layout = "none" /\ {main, mainBak} \subseteq {"absent"}
       /\ origin' = "single" => layout = "none"]_migrationVars

(* A document of the current format that can be read is used and not converted over.   *)
CurrentIsKept ==
  [][starting.pc = "commit" /\ starting'.pc = "ready" =>
       main # "new" /\ ~(main \in {"bad", "absent"} /\ mainBak = "new")]_migrationVars

(* The old files are in a complete snapshot before anything replaces them.              *)
SnapshotFirst == origin \in {"single", "split"} => origin \in snapshots

(* After the conversion of a split installation no cache of an earlier attempt is left  *)
(* ("cannot substitute for missing profile-local caches").                              *)
CachesBelong == starting.pc = "ready" /\ starting.source = "split" => sharedCache = "good"
=============================================================================
