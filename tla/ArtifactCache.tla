----------------------------- MODULE ArtifactCache -----------------------------
(* The digests of the update files (agents/upgrades.py): hashed through a fixed  *)
(* buffer while a deployment of the panel may replace or rewrite them, and kept  *)
(* by the identity of the file.                                                  *)
EXTENDS Naturals, Sequences

CONSTANTS
  Artifacts,     \* paths of the update files
  CacheLimit,    \* _ARTIFACT_CACHE_LIMIT
  MaxWrites      \* bound: changes of the files

VARIABLES
  file,          \* path -> what is there: blocks, and the stamp of its last change
  cache,         \* _ARTIFACT_CACHE: path -> its entry
  recent,        \* its order: the paths with an entry, the most recently used last
  reader,        \* the call of _artifact_metadata that holds the lock
  answer,        \* what the last call returned
  writes

artifactVars == <<file, cache, recent, reader, answer, writes>>

(* A file is two blocks; stamp stands for inode, size, mtime and ctime, which    *)
(* every change of the file renews.  Stamp 0 is no file.                         *)
NoFile == [stamp |-> 0, blocks |-> <<0, 0>>, elf |-> FALSE]
Free == [pc |-> "free", path |-> "", attempt |-> 0, expected |-> 0, open |-> NoFile, digest |-> <<>>]
None == [path |-> "", stamp |-> 0, digest |-> <<>>]

Entered == {p \in Artifacts : cache[p] # None}
Others(path) == SelectSeq(recent, LAMBDA p : p # path)

Forget(path) == cache' = [cache EXCEPT ![path] = None] /\ recent' = Others(path)

(* An entry is dropped before the file is read again, and the oldest one goes    *)
(* when there are too many.                                                      *)
Remember(e) ==
  LET all == Append(Others(e.path), e.path)
      full == Len(all) > CacheLimit
  IN /\ recent' = IF full THEN Tail(all) ELSE all
     /\ cache' = [p \in Artifacts |-> IF full /\ p = Head(all) THEN None
                                     ELSE IF p = e.path THEN e ELSE cache[p]]

Answer(e) == reader' = Free /\ answer' = e

(* is_file, stat, and the entry of the same identity.                            *)
Look(path) ==
  /\ reader.pc = "free" \/ (reader.pc = "again" /\ reader.path = path)
  /\ LET attempt == IF reader.pc = "again" THEN 1 ELSE 0
         hit == path \in Entered /\ cache[path].stamp = file[path].stamp
     IN \/ file[path].stamp = 0 /\ Forget(path) /\ Answer([None EXCEPT !.path = path])
        \/ /\ file[path].stamp # 0 /\ hit
           /\ recent' = Append(Others(path), path)
           /\ Answer(cache[path])
           /\ UNCHANGED cache
        \/ /\ file[path].stamp # 0 /\ ~hit
           /\ Forget(path)
           /\ reader' = [Free EXCEPT !.pc = "open", !.path = path, !.attempt = attempt,
                                     !.expected = file[path].stamp]
           /\ UNCHANGED answer
  /\ UNCHANGED <<file, writes>>

(* _ArtifactChanged is answered by one more attempt, then by an error.           *)
Changed ==
  IF reader.attempt = 0 THEN reader' = [reader EXCEPT !.pc = "again"] ELSE reader' = Free

(* The handle keeps its own file when the path is replaced by another.           *)
OpenFile ==
  /\ reader.pc = "open"
  /\ LET f == file[reader.path] IN
     IF f.stamp # reader.expected THEN Changed
     ELSE reader' = [reader EXCEPT !.pc = "read", !.open = f, !.digest = <<>>]
  /\ UNCHANGED <<file, cache, recent, answer, writes>>

(* One fill of the buffer: a block of the file as it is now.                     *)
ReadBlock ==
  /\ reader.pc = "read" /\ Len(reader.digest) < 2
  /\ reader' = [reader EXCEPT !.digest = Append(@, reader.open.blocks[Len(@) + 1])]
  /\ UNCHANGED <<file, cache, recent, answer, writes>>

Verify ==
  /\ reader.pc = "read" /\ Len(reader.digest) = 2
  /\ LET e == [path |-> reader.path, stamp |-> reader.expected, digest |-> reader.digest] IN
     IF reader.open.stamp # reader.expected \/ file[reader.path].stamp # reader.expected
     THEN Changed /\ UNCHANGED <<cache, recent, answer>>
     ELSE IF ~reader.open.elf
     THEN Answer([None EXCEPT !.path = reader.path]) /\ UNCHANGED <<cache, recent>>
     ELSE Answer(e) /\ Remember(e)
  /\ UNCHANGED <<file, writes>>

(* Another process installs a new file over the path, rewrites one block of it,  *)
(* or removes it.  A rewritten file is still the one the handle reads.            *)
Replace(path) ==
  /\ writes < MaxWrites
  /\ writes' = writes + 1
  /\ \E elf \in BOOLEAN :
       file' = [file EXCEPT ![path] = [stamp |-> writes + 2, blocks |-> <<writes + 2, writes + 2>>, elf |-> elf]]
  /\ UNCHANGED <<cache, recent, reader, answer>>

Rewrite(path) ==
  /\ writes < MaxWrites /\ file[path].stamp # 0
  /\ writes' = writes + 1
  /\ \E i \in 1..2 :
       LET f == [file[path] EXCEPT !.stamp = writes + 2, !.blocks[i] = writes + 2] IN
       /\ file' = [file EXCEPT ![path] = f]
       /\ reader' = IF reader.pc = "read" /\ reader.path = path /\ reader.open = file[path]
                    THEN [reader EXCEPT !.open = f] ELSE reader
  /\ UNCHANGED <<cache, recent, answer>>

Unlink(path) ==
  /\ writes < MaxWrites /\ file[path].stamp # 0
  /\ writes' = writes + 1
  /\ file' = [file EXCEPT ![path] = NoFile]
  /\ UNCHANGED <<cache, recent, reader, answer>>

ArtifactInit ==
  /\ file = [p \in Artifacts |-> [stamp |-> 1, blocks |-> <<1, 1>>, elf |-> TRUE]]
  /\ cache = [p \in Artifacts |-> None] /\ recent = <<>> /\ reader = Free /\ answer = None /\ writes = 0

ArtifactNext ==
  \/ OpenFile \/ ReadBlock \/ Verify
  \/ \E p \in Artifacts : Look(p) \/ Replace(p) \/ Rewrite(p) \/ Unlink(p)

ArtifactSpec == ArtifactInit /\ [][ArtifactNext]_artifactVars

(* -------------------------------- properties ------------------------------- *)
(* An entry of the cache never holds the digest of a mixture of two contents: as  *)
(* long as the file has the identity of the entry, it has these blocks            *)
(* (_read_artifact's "one stable file").                                         *)
CachedIsTrue ==
  \A p \in Entered : file[p].stamp = cache[p].stamp => file[p].blocks = cache[p].digest
====
