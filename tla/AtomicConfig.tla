---------------------------- MODULE AtomicConfig ----------------------------
(***************************************************************************)
(* What the deployment engine promises about the configuration directory:  *)
(* it moves from one complete version to another in a single step.  A      *)
(* deployment is published or has no effect, and only the version in force *)
(* can be undone, back to the version before it.                           *)
(***************************************************************************)
EXTENDS FiniteSets

CONSTANTS Deployment, Path, GeoPath, FileState,
          NoDeployment, Missing, Unsaved, Original

VARIABLES
    installed,  \* the files in force
    manifest,   \* the deployment in force and the files it lists
    undo        \* undo[d]: what undoing the published d reinstates

vars == <<installed, manifest, undo>>

NoManifest == [id |-> NoDeployment, files |-> [p \in Path |-> Missing]]
NoUndo == [files |-> [p \in Path |-> Unsaved], previous |-> NoManifest]
Listed(files) == {p \in Path : files[p] # Missing}

Init == /\ installed \in [Path -> {Original, Missing}]
        /\ manifest = NoManifest
        /\ undo = [d \in Deployment |-> NoUndo]

\* Version d replaces the files of the previous version; files neither of
\* them lists are left alone, and a managed Geo resource stays managed.
Publish(d) ==
    /\ manifest' \in [id : {d}, files : [Path -> FileState]]
    /\ undo[d] = NoUndo
    /\ LET managed == Listed(manifest'.files) \cup Listed(manifest.files)
       IN  /\ installed' = [p \in Path |->
                              IF p \in managed THEN manifest'.files[p] ELSE installed[p]]
           /\ undo' = [undo EXCEPT ![d] =
                         [files |-> [p \in Path |->
                                       IF p \in managed THEN installed[p] ELSE Unsaved],
                          previous |-> manifest]]
    /\ Listed(manifest'.files) # {}
    /\ GeoPath \cap Listed(manifest.files) \subseteq Listed(manifest'.files)

Undo(d) ==
    /\ manifest.id = d /\ undo[d] # NoUndo
    /\ installed' = [p \in Path |-> IF undo[d].files[p] = Unsaved
                                      THEN installed[p] ELSE undo[d].files[p]]
    /\ manifest' = undo[d].previous
    /\ undo' = [undo EXCEPT ![d] = NoUndo]

\* The history is bounded: an old version can no longer be undone.
Forget(d) ==
    /\ undo[d] # NoUndo
    /\ undo' = [undo EXCEPT ![d] = NoUndo]
    /\ UNCHANGED <<installed, manifest>>

Next == \E d \in Deployment :
          \/ Publish(d)
          \/ Undo(d)
          \/ Forget(d)

Spec == Init /\ [][Next]_vars

=============================================================================
