---------------------------- MODULE LegacyImport ----------------------------
(* The conversion of an installation with one catalog per profile to the shared  *)
(* catalog (_scope_legacy_dialers, _convert_import): equal definitions become one *)
(* resource, different ones stay apart under names of their own, and whatever a   *)
(* profile referred to still means what it meant there.                           *)
EXTENDS Naturals, FiniteSets, SequencesExt

CONSTANTS
  LegacyProfiles,   \* sequence of profile IDs, in the order of the old index
  Names,            \* names of nodes, which groups may have too
  Versions,         \* contents of a definition, its subscription's included
  LibraryIds        \* sequence of IDs of rule libraries, equal in two profiles by chance

VARIABLE legacy     \* the installation that is imported

Nowhere == "none"
Owners == ToSet(LegacyProfiles)

(* ------------------------------- raw dialers ------------------------------- *)
(* A node has a content and the name of its dialer; a name that denotes nothing,  *)
(* or two things, is refused before anything is converted.                        *)
NodesOf(p) == {n \in Names : legacy.nodes[p][n].version # 0}
Dialer(p, n) == legacy.nodes[p][n].dialer
Dials(p, n) == n \in NodesOf(p) /\ Dialer(p, n) # Nowhere
Accepted ==
  \A p \in Owners : \A n \in NodesOf(p) : Dials(p, n) =>
    (Dialer(p, n) \in NodesOf(p)) # (Dialer(p, n) \in legacy.groups[p])

Targets == {Dialer(p, n) : <<p, n>> \in {x \in Owners \X Names : Dials(x[1], x[2])}}
Definitions(n) == {legacy.nodes[p][n] : p \in {q \in Owners : n \in NodesOf(q)}}
GroupNames == UNION {legacy.groups[p] : p \in Owners}

Conflicting == {n \in Targets : Definitions(n) # {} /\ (Cardinality(Definitions(n)) > 1 \/ n \in GroupNames)}

(* What dials a name that differs by profile differs by profile itself.           *)
Dependents(scoped) ==
  {n \in Targets : \E p \in Owners : Dials(p, n) /\ Dialer(p, n) \in scoped \cap NodesOf(p)}

Scoped ==
  LET after[k \in 0..Cardinality(Names)] ==
        IF k = 0 THEN Conflicting ELSE after[k - 1] \cup Dependents(after[k - 1])
  IN after[Cardinality(Names)]

NewName(p, n) == IF n \in Scoped THEN <<n, p>> ELSE <<n>>
NewDialer(p, n) ==
  LET t == Dialer(p, n) IN
  IF t \in NodesOf(p) THEN NewName(p, t) ELSE <<t>>
Imported(p, n) == [name |-> NewName(p, n), version |-> legacy.nodes[p][n].version, dialer |-> NewDialer(p, n)]
NodeCatalog == {Imported(p, n) : <<p, n>> \in {x \in Owners \X Names : x[2] \in NodesOf(x[1])}}

(* ------------------------------ rule libraries ----------------------------- *)
(* merge_resource, for the libraries of every profile in turn: one identity is one *)
(* resource; another definition under the same ID or name gets a new one.          *)
LibrariesOf(p) == SelectSeq(LibraryIds, LAMBDA l : legacy.libraries[p][l].version # 0)
Variants(base, p) == {<<base, p, k>> : k \in 1..Len(LegacyProfiles) * Len(LibraryIds)}

MergeResource(catalog, p, old) ==
  IF \E r \in catalog : r.origin = old THEN catalog
  ELSE LET taken == {r.name : r \in catalog}
           base == <<old[2].name>>
           name == IF base \notin taken THEN base
                   ELSE CHOOSE v \in Variants(old[2].name, p) :
                          v \notin taken /\ \A w \in Variants(old[2].name, p) \ taken : v[3] <= w[3]
       IN catalog \cup {[origin |-> old, name |-> name]}

MergeProfile(catalog, p) ==
  FoldLeft(LAMBDA c, l : MergeResource(c, p, <<l, legacy.libraries[p][l]>>), catalog, LibrariesOf(p))
LibraryCatalog == FoldLeft(MergeProfile, {}, LegacyProfiles)

(* ------------------------------- the inputs -------------------------------- *)
NoNode == [version |-> 0, dialer |-> Nowhere]
NoLibrary == [version |-> 0, name |-> Nowhere]
LegacyNodes == [Names -> {NoNode} \cup [version : Versions, dialer : Names \cup {Nowhere}]]
LegacyLibraries == [ToSet(LibraryIds) -> {NoLibrary} \cup [version : Versions, name : {"ads", "cn"}]]

(* One kind of resource at a time, since they do not meet in the conversion.       *)
ImportInit == legacy = [nodes |-> [p \in Owners |-> [n \in Names |-> NoNode]],
                        groups |-> [p \in Owners |-> {}],
                        libraries |-> [p \in Owners |-> [l \in ToSet(LibraryIds) |-> NoLibrary]]]
PickNodes ==
  /\ \A p \in Owners : NodesOf(p) = {} /\ LibrariesOf(p) = <<>>
  /\ \E nodes \in [Owners -> LegacyNodes], groups \in [Owners -> SUBSET Names] :
       legacy' = [legacy EXCEPT !.nodes = nodes, !.groups = groups]
  /\ Accepted'
PickLibraries ==
  /\ \A p \in Owners : NodesOf(p) = {} /\ LibrariesOf(p) = <<>>
  /\ \E libraries \in [Owners -> LegacyLibraries] : legacy' = [legacy EXCEPT !.libraries = libraries]
ImportNext == PickNodes \/ PickLibraries
ImportSpec == ImportInit /\ [][ImportNext]_legacy

(* -------------------------------- properties ------------------------------- *)
(* A dialer reaches after the import exactly what it reached in its own profile,   *)
(* through any number of hops, although every name now lives in one catalog        *)
(* ("Bind raw dialers locally before merging independent node catalogs").          *)
DialersKeepTheirTarget ==
  \A p \in Owners : \A n \in NodesOf(p) : Dials(p, n) =>
    LET t == Dialer(p, n)
        named == {r \in NodeCatalog : r.name = NewDialer(p, n)} IN
    IF t \in NodesOf(p) THEN named = {Imported(p, t)} /\ (NewDialer(p, n) = <<t>> => t \notin GroupNames)
    ELSE named = {}

(* Every definition of a rule library is in the catalog once, and names, which      *)
(* become the keys of the generated providers, are unique (merge_resource).         *)
LibrariesStayApart ==
  /\ \A p \in Owners : \A l \in ToSet(LibrariesOf(p)) :
       Cardinality({r \in LibraryCatalog : r.origin = <<l, legacy.libraries[p][l]>>}) = 1
  /\ \A r, s \in LibraryCatalog : r.name = s.name => r = s
=============================================================================
