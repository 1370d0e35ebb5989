------------------------------ MODULE WikiCache ------------------------------
(***************************************************************************)
(* The cache of one wiki (rustoid-compare/src/cache.rs): a file per body,  *)
(* and a manifest, index.json, that says which bodies there are and of     *)
(* which revision.  Several handles may be open on one directory: two runs *)
(* at a time, or the renders of one run that read the same sibling wiki    *)
(* (harness.rs).  A process may die at any point.                          *)
(*                                                                         *)
(* A manifest is a function from the keys it has to the revisions it gives *)
(* them.  A body is known by the revision it was fetched at.  The files of *)
(* earlier layouts, and drop_colliding_bodies, which repairs them, are     *)
(* left out.                                                               *)
(***************************************************************************)
EXTENDS Naturals, FiniteSets, Functions, TLC

CONSTANTS
    Handles,        \* the handles that may be open on the directory
    Inputs,         \* keys of pages, templates, modules and facts
    Baselines,      \* keys of rendered pages (EntryKind::is_rendered)
    Revs,           \* revisions
    Unknown,        \* the revision a reindexed entry has
    None,           \* no file
    Torn,           \* a file that was not written to its end
    Regimes         \* how handles may share the directory: "alone", at most
                    \* one is open at a time; "exclusive", at most one writes
                    \* or deletes the manifest at a time; "apart", the same,
                    \* and they only add, each of them keys of its own;
                    \* "shared", in any way

Keys == Inputs \union Baselines

ASSUME ConstantsAssumption ==
    /\ Inputs \intersect Baselines = {}
    /\ IsFiniteSet(Handles)
    /\ {Unknown, None, Torn} \intersect Revs = {}
    /\ Unknown # None /\ Unknown # Torn /\ None # Torn
    /\ Regimes \subseteq {"alone", "exclusive", "apart", "shared"}

VARIABLES
    regime,         \* environment: how the handles share the directory
    body,           \* key -> what its file holds, or None
    index, tmp,     \* the files that index.json and index.json.tmp name
    content,        \* file -> what it holds
    pc,             \* handle -> what it is about to do
    mem,            \* handle -> its manifest
    removed,        \* handle -> the keys it deleted
    merged,         \* handle -> the manifest it is writing
    fd,             \* handle -> the file it is writing
    persisted,      \* ghost: keys whose entries a handle was told are on disk
    changed         \* ghost: handle -> the keys it has put, recovered or removed
                    \* since it last wrote the manifest

disk == <<body, index, tmp, content>>
handles == <<pc, mem, removed, merged, fd>>
ghosts == <<persisted, changed>>
vars == <<regime, disk, handles, ghosts>>

-----------------------------------------------------------------------------
\* What an entry states its revision to be (EntryMeta::revid).
Stated == Revs \union {Unknown}
Manifests == UNION {[S -> Stated] : S \in SUBSET Keys}

ASSUME MarksAssumption == Torn \notin Manifests /\ None \notin Nat
Empty == [k \in {} |-> Unknown]
Entry(k, r) == [j \in {k} |-> r]

\* The entries of m, and those of n that m has not.
Over(m, n) == [k \in DOMAIN m \union DOMAIN n |-> IF k \in DOMAIN m THEN m[k] ELSE n[k]]

\* A directory entry keeps a file, and so does a handle that is writing it.
Files == 1..(2 + Cardinality(Handles))
FreeFile == CHOOSE f \in Files : f \notin {index, tmp} \union Range(fd)

\* Deleting a name; nobody reads a file that has none.
Deleted(name) == IF name = None THEN content ELSE [content EXCEPT ![name] = Torn]

Readable(file) == file # None /\ content[file] # Torn
OnDisk == IF Readable(index) THEN content[index] ELSE Empty

Opened(h) == pc[h] # "closed"
Ready(h) == pc[h] \in {"opened", "ready"}
Writing(h) == pc[h] \in {"merged", "truncated", "written"}

\* Environment: a handle that changes S does so alone, in the regime "apart".
MayWrite(h, S) ==
    regime = "apart" => S \intersect (DOMAIN OnDisk
                          \union UNION {DOMAIN mem[g] : g \in Handles \ {h}}) = {}
MayWriteIndex == regime \in {"exclusive", "apart"} => \A g \in Handles : ~Writing(g)

Changes(h, S) == changed' = [changed EXCEPT ![h] = @ \union S]

Goes(h, where) == pc' = [pc EXCEPT ![h] = where]

Init ==
    /\ regime \in Regimes
    /\ body = [k \in Keys |-> None]
    /\ index = None /\ tmp = None
    /\ content = [f \in Files |-> Torn]
    /\ pc = [h \in Handles |-> "closed"]
    /\ mem = [h \in Handles |-> Empty]
    /\ removed = [h \in Handles |-> {}]
    /\ merged = [h \in Handles |-> Empty]
    /\ fd = [h \in Handles |-> None]
    /\ persisted = {}
    /\ changed = [h \in Handles |-> {}]

\* A manifest that cannot be read is an error, a missing one is an empty one.
open(h) ==
    /\ pc[h] = "closed"
    /\ regime = "alone" => \A g \in Handles : ~Opened(g)
    /\ index = None \/ Readable(index)
    /\ mem' = [mem EXCEPT ![h] = OnDisk]
    /\ Goes(h, "opened")
    /\ UNCHANGED <<disk, removed, merged, fd, ghosts>>

-----------------------------------------------------------------------------
(* Bodies. *)

\* A baseline pinned to one revision is not replaced by another.  NeverOrphans,
\* like OwnOnly and IndexItself below, varies the operator after it the way a
\* mistake in the code would; no action uses them.
NeverOrphans(h, k, r) == FALSE
would_orphan(h, k, r) ==
    /\ k \in Baselines
    /\ k \in DOMAIN mem[h]
    /\ mem[h][k] \notin {Unknown, r}

put(h, k, r) ==
    /\ Ready(h)
    /\ MayWrite(h, {k})
    /\ ~would_orphan(h, k, r)
    /\ body' = [body EXCEPT ![k] = r]
    /\ mem' = [mem EXCEPT ![h] = Over(Entry(k, r), @)]
    /\ Changes(h, {k})
    /\ Goes(h, "ready")
    /\ UNCHANGED <<index, tmp, content, removed, merged, fd, persisted>>

\* A process ends: whatever was in memory is gone.
Ends(h) ==
    /\ Goes(h, "closed")
    /\ mem' = [mem EXCEPT ![h] = Empty]
    /\ removed' = [removed EXCEPT ![h] = {}]
    /\ merged' = [merged EXCEPT ![h] = Empty]
    /\ fd' = [fd EXCEPT ![h] = None]
    /\ changed' = [changed EXCEPT ![h] = {}]

\* It may end in the middle of a body.
PutCrashes(h, k, r) ==
    /\ Ready(h)
    /\ MayWrite(h, {k})
    /\ ~would_orphan(h, k, r)
    /\ body' = [body EXCEPT ![k] = Torn]
    /\ Ends(h)
    /\ UNCHANGED <<index, tmp, content, persisted>>

remove(h, k) ==
    /\ Ready(h)
    /\ regime # "apart"
    /\ body' = [body EXCEPT ![k] = None]
    /\ mem' = [mem EXCEPT ![h] = Restrict(@, DOMAIN @ \ {k})]
    /\ removed' = [removed EXCEPT ![h] = @ \union {k}]
    /\ persisted' = persisted \ {k}
    /\ Changes(h, {k})
    /\ Goes(h, "indexing")
    /\ UNCHANGED <<index, tmp, content, merged, fd>>

\* An entry for every body that has none, of an unknown revision.
Bodies == {k \in Keys : body[k] # None}

reindex(h) ==
    /\ pc[h] = "opened"
    /\ MayWrite(h, Bodies \ DOMAIN mem[h])
    /\ mem' = [mem EXCEPT ![h] = Over(@, [k \in Bodies |-> Unknown])]
    /\ removed' = [removed EXCEPT ![h] = @ \ (Bodies \ DOMAIN mem[h])]
    /\ Changes(h, Bodies \ DOMAIN mem[h])
    /\ Goes(h, "indexing")
    /\ UNCHANGED <<disk, merged, fd, persisted>>

-----------------------------------------------------------------------------
(* The manifest: what is on disk is read and merged, the result written to *)
(* a temporary file, and that file renamed.                                *)

write_index(h) ==
    /\ Ready(h)
    /\ Goes(h, "indexing")
    /\ UNCHANGED <<disk, mem, removed, merged, fd, ghosts>>

\* The handle's own entries win; what it deleted is not taken back.
OwnOnly(h) == mem[h]
Merged(h) == Over(mem[h], Restrict(OnDisk, DOMAIN OnDisk \ removed[h]))

Merge(h) ==
    /\ pc[h] = "indexing"
    /\ MayWriteIndex
    /\ merged' = [merged EXCEPT ![h] = Merged(h)]
    /\ Goes(h, "merged")
    /\ UNCHANGED <<disk, mem, removed, fd, ghosts>>

\* fs::write opens the file of that name, or a new one, and empties it ...
IndexItself == IF index # None THEN index ELSE FreeFile
TmpFile == IF tmp # None THEN tmp ELSE FreeFile

Truncate(h) ==
    /\ pc[h] = "merged"
    /\ tmp' = TmpFile
    /\ fd' = [fd EXCEPT ![h] = tmp']
    /\ content' = [content EXCEPT ![tmp'] = Torn]
    /\ Goes(h, "truncated")
    /\ UNCHANGED <<body, index, mem, removed, merged, ghosts>>

\* ... and then writes it.  Over a longer text that another handle has written
\* meanwhile, the end of that text stays.
WriteTmp(h) ==
    /\ pc[h] = "truncated"
    /\ \E text \in {merged[h]} \union
                   (IF content[fd[h]] \in {Torn, merged[h]} THEN {} ELSE {Torn}) :
          content' = [content EXCEPT ![fd[h]] = text]
    /\ fd' = [fd EXCEPT ![h] = None]
    /\ Goes(h, "written")
    /\ UNCHANGED <<body, index, tmp, mem, removed, merged, ghosts>>

Rename(h) ==
    /\ pc[h] = "written" /\ tmp # None
    /\ index' = tmp /\ tmp' = None
    /\ content' = Deleted(index)
    /\ merged' = [merged EXCEPT ![h] = Empty]
    /\ persisted' = (persisted \ removed[h]) \union DOMAIN mem[h]
    /\ changed' = [changed EXCEPT ![h] = {}]
    /\ Goes(h, "ready")
    /\ UNCHANGED <<body, mem, removed, fd>>

\* Another handle has renamed it: write_index is an error.
RenameFails(h) ==
    /\ pc[h] = "written" /\ tmp = None
    /\ merged' = [merged EXCEPT ![h] = Empty]
    /\ Goes(h, "ready")
    /\ UNCHANGED <<disk, mem, removed, fd, ghosts>>

-----------------------------------------------------------------------------
(* flush: everything in the directory is deleted, in any order.            *)

Deletes(h) ==
    /\ pc[h] \in {"opened", "flushing"}
    /\ regime # "apart"
    /\ Goes(h, "flushing")
    /\ persisted' = {}
    /\ UNCHANGED <<mem, removed, merged, fd, changed>>

FlushBody(h, k) ==
    /\ Deletes(h)
    /\ body[k] # None
    /\ body' = [body EXCEPT ![k] = None]
    /\ UNCHANGED <<index, tmp, content>>

FlushIndex(h) ==
    /\ Deletes(h)
    /\ MayWriteIndex
    /\ index # None /\ index' = None /\ content' = Deleted(index)
    /\ UNCHANGED <<body, tmp>>

FlushTmp(h) ==
    /\ Deletes(h)
    /\ tmp # None /\ tmp' = None /\ content' = Deleted(tmp)
    /\ UNCHANGED <<body, index>>

\* A run ends, having done what it came for or not.
Stop(h) ==
    /\ Opened(h)
    /\ Ends(h)
    /\ UNCHANGED <<disk, persisted>>

Next ==
    /\ UNCHANGED regime
    /\ \E h \in Handles :
          \/ open(h) \/ reindex(h) \/ write_index(h)
          \/ \E k \in Keys : remove(h, k) \/ FlushBody(h, k)
          \/ \E k \in Keys, r \in Stated : put(h, k, r) \/ PutCrashes(h, k, r)
          \/ Merge(h) \/ Truncate(h) \/ WriteTmp(h) \/ Rename(h) \/ RenameFails(h)
          \/ FlushIndex(h) \/ FlushTmp(h)
          \/ Stop(h)

Spec == Init /\ [][Next]_vars

-----------------------------------------------------------------------------
(* Properties. *)

\* What a user of the cache sees of a handle.
Stage(h) ==
    IF pc[h] = "closed" THEN "closed" ELSE IF pc[h] = "flushing" THEN "flushing" ELSE "open"

Store == INSTANCE ManifestStore WITH
             stage <- [h \in Handles |-> Stage(h)],
             entries <- OnDisk,
             view <- mem,
             changed <- changed

\* What the cache does is what the store does, in the regimes that allow it.
StoreStep == regime \in {"alone", "apart"} => Store!StoreNext

\* With one handle at a time, or with handles that add keys of their own, reading,
\* merging, the temporary file and the rename together are one write of what the
\* handle has changed and of nothing else, wherever a process dies: what another
\* has added since is kept, nothing is written twice, and nothing half written is
\* ever read (write_index, and the test that two handles writing do not drop each
\* other's entries). Otherwise a handle writes again what it has only read, and
\* brings back what another has removed.
ImplementsStore ==
    /\ Store!StoreInit
    /\ [][StoreStep]_(Store!storeVars)

\* Every part of the state is of its kind.
TypeOK ==
    /\ regime \in Regimes
    /\ body \in [Keys -> Stated \union {None, Torn}]
    /\ {index, tmp} \subseteq Files \union {None}
    /\ index # None => index # tmp
    /\ content \in [Files -> Manifests \union {Torn}]
    /\ pc \in [Handles -> {"closed", "opened", "ready", "indexing", "merged",
                           "truncated", "written", "flushing"}]
    /\ mem \in [Handles -> Manifests] /\ merged \in [Handles -> Manifests]
    /\ removed \in [Handles -> SUBSET Keys]
    /\ fd \in [Handles -> Files \union {None}]
    /\ persisted \subseteq Keys
    /\ changed \in [Handles -> SUBSET Keys]

\* A crash cannot leave a truncated manifest: index.json is whole whenever
\* there is one.
ManifestWhole == index # None => Readable(index)

\* The entries a handle was told are on disk stay there until it, or a handle
\* that deleted them, says otherwise: no other writer silently drops them.
PersistedKept == persisted \subseteq DOMAIN OnDisk

\* Every manifest there is: on disk, or in the memory of a handle.
Held == {OnDisk} \union {mem[h] : h \in Handles}

\* With one run after another, the HTML a page is compared against is never that
\* of another revision than the one it is pinned to, wherever a run died.
PinnedIsItself ==
    regime = "alone" =>
        \A m \in Held : \A k \in DOMAIN m \intersect Baselines :
            m[k] # Unknown => body[k] \in {m[k], Torn, None}
=============================================================================
