--------------------------- MODULE WikiCacheProofs ---------------------------
(* What holds of WikiCache for every set of keys, revisions and handles.    *)
EXTENDS WikiCache, FiniteSetTheorems, TLAPS

-----------------------------------------------------------------------------
(* Manifests. *)

\* The empty manifest is one.
LEMMA EmptyType == Empty \in Manifests /\ DOMAIN Empty = {}
  BY DEF Empty, Manifests

\* A manifest with one entry set is one.
LEMMA SetType ==
  ASSUME NEW m \in Manifests, NEW k \in Keys, NEW r \in Stated
  PROVE  /\ Over(Entry(k, r), m) \in Manifests
         /\ DOMAIN Over(Entry(k, r), m) = DOMAIN m \union {k}
         /\ Over(Entry(k, r), m)[k] = r
         /\ \A j \in DOMAIN m \ {k} : Over(Entry(k, r), m)[j] = m[j]
<1> DEFINE n == Over(Entry(k, r), m)
<1>1. PICK S \in SUBSET Keys : m \in [S -> Stated]
  BY DEF Manifests
<1>2. n = [x \in {k} \union S |-> IF x = k THEN r ELSE m[x]]
  BY <1>1 DEF Over, Entry
<1>3. n \in [{k} \union S -> Stated]
  BY <1>1, <1>2
<1>4. n \in Manifests
  BY <1>3 DEF Manifests
<1> QED BY <1>1, <1>2, <1>4

\* A manifest without some of its entries is one.
LEMMA RestrictType ==
  ASSUME NEW m \in Manifests, NEW S
  PROVE  /\ Restrict(m, DOMAIN m \ S) \in Manifests
         /\ DOMAIN Restrict(m, DOMAIN m \ S) = DOMAIN m \ S
         /\ \A j \in DOMAIN m \ S : Restrict(m, DOMAIN m \ S)[j] = m[j]
<1>1. PICK D \in SUBSET Keys : m \in [D -> Stated]
  BY DEF Manifests
<1>2. Restrict(m, DOMAIN m \ S) = [x \in D \ S |-> m[x]]
  BY <1>1 DEF Restrict
<1>3. Restrict(m, DOMAIN m \ S) \in [D \ S -> Stated]
  BY <1>1, <1>2
<1>4. Restrict(m, DOMAIN m \ S) \in Manifests
  BY <1>1, <1>3 DEF Manifests
<1> QED BY <1>1, <1>2, <1>4

\* Two manifests merge into one, in which the entries of the first win.
LEMMA MergeType ==
  ASSUME NEW m \in Manifests, NEW n \in Manifests
  PROVE  /\ Over(m, n) \in Manifests
         /\ DOMAIN Over(m, n) = DOMAIN m \union DOMAIN n
         /\ \A j \in DOMAIN m : Over(m, n)[j] = m[j]
         /\ \A j \in DOMAIN n \ DOMAIN m : Over(m, n)[j] = n[j]
<1>1. PICK D \in SUBSET Keys : m \in [D -> Stated]
  BY DEF Manifests
<1>2. PICK E \in SUBSET Keys : n \in [E -> Stated]
  BY DEF Manifests
<1>3. Over(m, n) = [x \in D \union E |-> IF x \in D THEN m[x] ELSE n[x]]
  BY <1>1, <1>2 DEF Over
<1>4. Over(m, n) \in [D \union E -> Stated]
  BY <1>1, <1>2, <1>3
<1>5. Over(m, n) \in Manifests
  BY <1>1, <1>2, <1>4 DEF Manifests
<1> QED BY <1>1, <1>2, <1>3, <1>5

\* Entries of an unknown revision make a manifest.
LEMMA UnknownType ==
  ASSUME NEW S \in SUBSET Keys
  PROVE  [k \in S |-> Unknown] \in Manifests
  BY DEF Manifests, Stated

-----------------------------------------------------------------------------
(* Type correctness, by groups of variables. *)

DiskType ==
    /\ body \in [Keys -> Stated \union {None, Torn}]
    /\ index \in Files \union {None} /\ tmp \in Files \union {None}
    /\ index # None => index # tmp
    /\ content \in [Files -> Manifests \union {Torn}]

HandleType ==
    /\ pc \in [Handles -> {"closed", "opened", "ready", "indexing", "merged",
                           "truncated", "written", "flushing"}]
    /\ mem \in [Handles -> Manifests] /\ merged \in [Handles -> Manifests]
    /\ removed \in [Handles -> SUBSET Keys]
    /\ fd \in [Handles -> Files \union {None}]
    /\ changed \in [Handles -> SUBSET Keys]

\* At most one handle writes the manifest, unless they share the directory freely.
OneWriter ==
    /\ regime = "alone" => \A g, h \in Handles : Opened(g) /\ Opened(h) => g = h
    /\ regime \in {"exclusive", "apart"} => \A g, h \in Handles : Writing(g) /\ Writing(h) => g = h

\* The type invariant, by the groups of variables a step changes.
LEMMA TypeParts ==
  /\ TypeOK <=> regime \in Regimes /\ DiskType /\ HandleType /\ persisted \subseteq Keys
  /\ TypeOK' <=> regime' \in Regimes /\ DiskType' /\ HandleType' /\ persisted' \subseteq Keys
  BY DEF TypeOK, DiskType, HandleType

\* A manifest that is on disk is one, and None is no file.
LEMMA OnDiskType ==
  ASSUME DiskType
  PROVE  OnDisk \in Manifests /\ None \notin Files
<1>1. None \notin Files
  BY MarksAssumption, ConstantsAssumption, FS_CardinalityType DEF Files
<1>2. CASE Readable(index)
  <2>1. index \in Files
    BY <1>2 DEF DiskType, Readable
  <2> QED BY <1>1, <1>2, <2>1 DEF DiskType, OnDisk, Readable
<1>3. CASE ~Readable(index)
  BY <1>1, <1>3, EmptyType DEF OnDisk
<1> QED BY <1>2, <1>3

\* A handle holds a file open only between opening and writing it.
OpenFiles == \A h \in Handles : fd[h] # None => pc[h] = "truncated"

\* There is a file that no name and no handle has.
LEMMA FreeFileType ==
  ASSUME DiskType, HandleType, OpenFiles, NEW h \in Handles, pc[h] = "merged"
  PROVE  FreeFile \in Files \ ({index, tmp} \union Range(fd))
<1> DEFINE N == Cardinality(Handles)
<1> DEFINE F == (Files \ {index}) \ {tmp}
<1> DEFINE G == Handles \ {h}
<1>1. N \in Nat /\ N >= 1
  BY ConstantsAssumption, FS_CardinalityType, FS_EmptySet
<1>2. IsFiniteSet(Files) /\ Cardinality(Files) = N + 2
  <2>1. 2 + N \in Int /\ 1 \in Int /\ ~(1 > 2 + N) /\ (2 + N) - 1 + 1 = N + 2
    BY <1>1
  <2> HIDE DEF N
  <2>2. IsFiniteSet(1..(2 + N)) /\ Cardinality(1..(2 + N)) = N + 2
    BY <2>1, FS_Interval
  <2> QED BY <2>2 DEF Files, N
<1>3. IsFiniteSet(F) /\ Cardinality(F) >= N
  <2>1. IsFiniteSet(Files \ {index}) /\ Cardinality(Files \ {index}) >= N + 1
        /\ Cardinality(Files \ {index}) \in Nat
    <3>1. IsFiniteSet(Files \ {index})
          /\ Cardinality(Files \ {index}) \in {Cardinality(Files) - 1, Cardinality(Files)}
      BY <1>2, FS_RemoveElement
    <3> HIDE DEF N
    <3> QED BY <1>1, <1>2, <3>1
  <2>2. IsFiniteSet(F) /\ Cardinality(F) \in
           {Cardinality(Files \ {index}) - 1, Cardinality(Files \ {index})}
    BY <2>1, FS_RemoveElement
  <2> HIDE DEF N, F
  <2> QED BY <1>1, <2>1, <2>2
<1>4. IsFiniteSet(G) /\ Cardinality(G) = N - 1
  BY ConstantsAssumption, FS_RemoveElement
<1>5. fd[h] = None
  BY DEF OpenFiles
<1>6. \E file \in F : file \notin Range(fd)
  <2> SUFFICES ASSUME \A file \in F : file \in Range(fd) PROVE FALSE
    OBVIOUS
  <2> DEFINE who == [file \in F |-> CHOOSE g \in G : fd[g] = file]
  <2>1. \A file \in F : \E g \in G : fd[g] = file
    BY <1>5, ConstantsAssumption, MarksAssumption, FS_CardinalityType DEF Range, HandleType, Files
  <2>2. who \in [F -> G] /\ \A file \in F : fd[who[file]] = file
    BY <2>1
  <2>3. Cardinality(G) < Cardinality(F)
    <3>1. Cardinality(F) \in Nat
      BY <1>3, FS_CardinalityType
    <3> HIDE DEF N, F, G
    <3> QED BY <1>1, <1>3, <1>4, <3>1
  <2> HIDE DEF who, F, G
  <2>4. \E x, y \in F : x # y /\ who[x] = who[y]
    BY <1>3, <1>4, <2>2, <2>3, FS_PigeonHole
  <2> QED BY <2>2, <2>4
<1>7. \E file \in Files : file \notin {index, tmp} \union Range(fd)
  BY <1>6
<1> QED BY <1>7 DEF FreeFile

\* What is truncated is a file of its own: never the manifest, and no other
\* handle's unless it has the name.
LEMMA TmpFileType ==
  ASSUME DiskType, HandleType, OpenFiles, NEW h \in Handles, pc[h] = "merged"
  PROVE  TmpFile \in Files /\ TmpFile # index /\ TmpFile # None
<1>1. FreeFile \in Files \ ({index, tmp} \union Range(fd))
  BY FreeFileType
<1>2. None \notin Files
  BY OnDiskType
<1> QED BY <1>1, <1>2 DEF TmpFile, DiskType

\* A process that ends leaves nothing in memory.
LEMMA EndsType ==
  ASSUME HandleType, OpenFiles, NEW h \in Handles, Ends(h)
  PROVE  HandleType' /\ OpenFiles'
  BY EmptyType DEF Ends, Goes, HandleType, OpenFiles

\* What a merged manifest is, and which entries it has.
LEMMA MergedType ==
  ASSUME DiskType, HandleType, NEW h \in Handles
  PROVE  /\ Merged(h) \in Manifests
         /\ DOMAIN Merged(h) = DOMAIN mem[h] \union (DOMAIN OnDisk \ removed[h])
         /\ \A k \in DOMAIN mem[h] : Merged(h)[k] = mem[h][k]
         /\ \A k \in DOMAIN OnDisk \ (removed[h] \union DOMAIN mem[h]) :
               Merged(h)[k] = OnDisk[k]
<1>1. OnDisk \in Manifests /\ mem[h] \in Manifests
  BY OnDiskType DEF HandleType
<1> DEFINE kept == Restrict(OnDisk, DOMAIN OnDisk \ removed[h])
<1>2. /\ kept \in Manifests /\ DOMAIN kept = DOMAIN OnDisk \ removed[h]
      /\ \A k \in DOMAIN OnDisk \ removed[h] : kept[k] = OnDisk[k]
  <2> HIDE DEF kept
  <2>1. \A m \in Manifests : \A S :
           /\ Restrict(m, DOMAIN m \ S) \in Manifests
           /\ DOMAIN Restrict(m, DOMAIN m \ S) = DOMAIN m \ S
           /\ \A j \in DOMAIN m \ S : Restrict(m, DOMAIN m \ S)[j] = m[j]
    BY RestrictType
  <2> QED BY <1>1, <2>1 DEF kept
<1>3. Merged(h) = Over(mem[h], kept)
  BY DEF Merged
<1> HIDE DEF kept
<1>4. /\ Over(mem[h], kept) \in Manifests
      /\ DOMAIN Over(mem[h], kept) = DOMAIN mem[h] \union DOMAIN kept
      /\ \A j \in DOMAIN mem[h] : Over(mem[h], kept)[j] = mem[h][j]
      /\ \A j \in DOMAIN kept \ DOMAIN mem[h] : Over(mem[h], kept)[j] = kept[j]
  BY <1>1, <1>2, MergeType
<1> QED BY <1>2, <1>3, <1>4

-----------------------------------------------------------------------------
(* One step preserves the types.                                           *)

TypeInv == TypeOK /\ OpenFiles

\* What a handle may do.
HandleStep(h) ==
    \/ open(h) \/ reindex(h) \/ write_index(h)
    \/ \E k \in Keys : remove(h, k) \/ FlushBody(h, k)
    \/ \E k \in Keys, r \in Stated : put(h, k, r) \/ PutCrashes(h, k, r)
    \/ Merge(h) \/ Truncate(h) \/ WriteTmp(h) \/ Rename(h) \/ RenameFails(h)
    \/ FlushIndex(h) \/ FlushTmp(h)
    \/ Stop(h)

LEMMA NextIsHandleStep == Next <=> UNCHANGED regime /\ \E h \in Handles : HandleStep(h)
  BY DEF Next, HandleStep

\* The program starts in a state of its type.
LEMMA InitType == Init => TypeInv
<1> SUFFICES ASSUME Init PROVE TypeInv
  OBVIOUS
<1>1. DiskType /\ HandleType /\ OpenFiles
  BY EmptyType, MarksAssumption DEF Init, DiskType, HandleType, OpenFiles
<1> QED BY <1>1, TypeParts DEF Init, TypeInv

\* Every step of a handle keeps the type.
LEMMA NextType == TypeInv /\ [Next]_vars => TypeInv'
<1> SUFFICES ASSUME TypeInv, [Next]_vars PROVE TypeInv'
  OBVIOUS
<1> USE TypeParts DEF TypeInv
<1> USE DEF disk, ghosts
<1>0. /\ regime \in Regimes /\ DiskType /\ HandleType /\ OpenFiles /\ persisted \subseteq Keys
  OBVIOUS
<1>1. OnDisk \in Manifests /\ None \notin Files
  BY OnDiskType
<1>2. CASE UNCHANGED vars
  BY <1>0, <1>2 DEF vars, handles, ghosts, DiskType, HandleType, OpenFiles
<1>3. ASSUME NEW h \in Handles, UNCHANGED regime,
             HandleStep(h)
      PROVE  DiskType' /\ HandleType' /\ OpenFiles' /\ persisted' \subseteq Keys
  <2> USE <1>0, <1>1, <1>3 DEF HandleStep
  <2>0. mem[h] \in Manifests /\ merged[h] \in Manifests /\ removed[h] \in SUBSET Keys
        /\ fd[h] \in Files \union {None}
    BY DEF HandleType
  <2>1. CASE open(h)
    BY <2>1 DEF open, Goes, DiskType, HandleType, OpenFiles
  <2>2. CASE reindex(h)
    <3>1. Over(mem[h], [k \in Bodies |-> Unknown]) \in Manifests
      BY <2>0, UnknownType, MergeType DEF Bodies
    <3>2. Bodies \subseteq Keys
      BY DEF Bodies
    <3> QED BY <2>0, <2>2, <3>1, <3>2 DEF reindex, Changes, Goes, DiskType, HandleType, OpenFiles
  <2>3. CASE write_index(h)
    BY <2>3 DEF write_index, Goes, Ready, DiskType, HandleType, OpenFiles
  <2>4. ASSUME NEW k \in Keys, remove(h, k)
        PROVE  DiskType' /\ HandleType' /\ OpenFiles' /\ persisted' \subseteq Keys
    <3>1. Restrict(mem[h], DOMAIN mem[h] \ {k}) \in Manifests
      BY <2>0, RestrictType
    <3> QED BY <2>0, <2>4, <3>1 DEF remove, Changes, Goes, Ready, DiskType, HandleType, OpenFiles
  <2>5. ASSUME NEW k \in Keys, FlushBody(h, k)
        PROVE  DiskType' /\ HandleType' /\ OpenFiles' /\ persisted' \subseteq Keys
    BY <2>5 DEF FlushBody, Deletes, Goes, DiskType, HandleType, OpenFiles
  <2>6. ASSUME NEW k \in Keys, NEW r \in Stated, put(h, k, r)
        PROVE  DiskType' /\ HandleType' /\ OpenFiles' /\ persisted' \subseteq Keys
    <3>1. Over(Entry(k, r), mem[h]) \in Manifests
      BY <2>0, SetType
    <3> QED BY <2>6, <3>1 DEF put, Changes, Goes, Ready, DiskType, HandleType, OpenFiles
  <2>7. ASSUME NEW k \in Keys, NEW r \in Stated, PutCrashes(h, k, r)
        PROVE  DiskType' /\ HandleType' /\ OpenFiles' /\ persisted' \subseteq Keys
    BY <2>7, EndsType DEF PutCrashes, DiskType
  <2>8. CASE Merge(h)
    BY <2>8, MergedType DEF Merge, Goes, DiskType, HandleType, OpenFiles
  <2>9. CASE Truncate(h)
    <3>1. TmpFile \in Files /\ TmpFile # index /\ TmpFile # None
      BY <2>9, TmpFileType DEF Truncate
    <3> QED BY <2>9, <3>1 DEF Truncate, Goes, DiskType, HandleType, OpenFiles
  <2>10. CASE WriteTmp(h)
    <3>1. content' \in [Files -> Manifests \union {Torn}]
      BY <2>0, <2>10 DEF WriteTmp, DiskType
    <3> QED BY <2>10, <3>1 DEF WriteTmp, Goes, DiskType, HandleType, OpenFiles
  <2>11. CASE Rename(h)
    <3>1. content' \in [Files -> Manifests \union {Torn}]
      BY <2>11 DEF Rename, Deleted, DiskType
    <3>2. DOMAIN mem[h] \subseteq Keys
      BY <2>0 DEF Manifests
    <3> QED BY <2>11, <3>1, <3>2, EmptyType DEF Rename, Goes, DiskType, HandleType, OpenFiles
  <2>12. CASE RenameFails(h)
    BY <2>12, EmptyType DEF RenameFails, Goes, DiskType, HandleType, OpenFiles
  <2>13. CASE FlushIndex(h)
    BY <2>13 DEF FlushIndex, Deletes, Deleted, Goes, DiskType, HandleType, OpenFiles
  <2>14. CASE FlushTmp(h)
    BY <2>14 DEF FlushTmp, Deletes, Deleted, Goes, DiskType, HandleType, OpenFiles
  <2>15. CASE Stop(h)
    BY <2>15, EndsType DEF Stop, DiskType
  <2> QED BY <2>1, <2>2, <2>3, <2>4, <2>5, <2>6, <2>7, <2>8, <2>9, <2>10, <2>11, <2>12,
             <2>13, <2>14, <2>15
<1>4. CASE Next
  BY <1>0, <1>3, <1>4, NextIsHandleStep
<1> QED BY <1>2, <1>4

\* Every part of the state is of its kind (cache.rs, WikiCache, WikiIndex).
THEOREM TypeCorrect == Spec => []TypeOK
<1>1. Spec => []TypeInv
  BY InitType, NextType, PTL DEF Spec
<1>2. TypeInv => TypeOK
  BY DEF TypeInv
<1> QED BY <1>1, <1>2, PTL

-----------------------------------------------------------------------------
(* The manifest changes in one step.                                       *)

\* What a writer has merged is still what it would merge, the file it has
\* emptied is not the manifest, and the file it has written holds what it merged.
WriterOK(h) ==
    /\ Writing(h) => merged[h] = Merged(h)
    /\ pc[h] = "truncated" =>
          /\ fd[h] \in Files \ {index} /\ content[fd[h]] = Torn
          /\ tmp # None => tmp = fd[h]
    /\ pc[h] = "written" /\ tmp # None => content[tmp] = merged[h]

WriterInv ==
    /\ OneWriter
    /\ regime # "shared" =>
          ManifestWhole /\ PersistedKept /\ \A h \in Handles : WriterOK(h)

StoreInv == TypeInv /\ WriterInv

\* No handle writes the manifest while another does.
LEMMA OneWriterType ==
  ASSUME TypeInv, WriterInv, regime # "shared",
         NEW g \in Handles, NEW h \in Handles, Writing(g), Writing(h)
  PROVE  g = h
<1>1. regime \in {"alone", "exclusive", "apart"}
  BY ConstantsAssumption DEF TypeInv, TypeOK
<1>2. Opened(g) /\ Opened(h)
  BY DEF Opened, Writing
<1> QED BY <1>1, <1>2 DEF WriterInv, OneWriter

\* Whoever deletes the manifest does so while no handle writes it.
LEMMA FlushIndexAlone ==
  ASSUME TypeInv, WriterInv, regime # "shared",
         NEW g \in Handles, NEW h \in Handles, FlushIndex(h)
  PROVE  ~Writing(g)
<1>1. regime \in {"alone", "exclusive", "apart"}
  BY ConstantsAssumption DEF TypeInv, TypeOK
<1>2. CASE regime # "alone"
  BY <1>1, <1>2 DEF FlushIndex, MayWriteIndex
<1>3. CASE regime = "alone"
  <2>1. Opened(h) /\ ~Writing(h)
    BY DEF FlushIndex, Deletes, Opened, Writing
  <2> QED BY <1>3, <2>1 DEF WriterInv, OneWriter, Opened, Writing
<1> QED BY <1>1, <1>2, <1>3

\* A step leaves the manifest, or replaces it with what the handle has merged,
\* or deletes it.
LEMMA ManifestSteps ==
  ASSUME TypeInv, WriterInv, regime # "shared", NEW h \in Handles, HandleStep(h)
  PROVE  \/ Rename(h) /\ OnDisk' = Merged(h) /\ Readable(index)'
         \/ FlushIndex(h) /\ OnDisk' = Empty /\ index' = None
         \/ ~Rename(h) /\ OnDisk' = OnDisk /\ (Readable(index)' <=> Readable(index))
            /\ UNCHANGED index
<1> USE DEF disk, ghosts
<1>0. DiskType /\ HandleType
  BY TypeParts DEF TypeInv
<1>1. OnDisk \in Manifests /\ None \notin Files
  BY <1>0, OnDiskType
<1>2. WriterOK(h)
  BY DEF WriterInv
<1>3. CASE Rename(h)
  <2>1. pc[h] = "written" /\ tmp # None /\ index' = tmp
    BY <1>3 DEF Rename
  <2>2. content[tmp] = Merged(h)
    BY <1>2, <2>1 DEF WriterOK, Writing
  <2>3. content'[tmp] = content[tmp]
    BY <1>0, <1>3, <2>1 DEF Rename, Deleted, DiskType
  <2>4. Merged(h) # Torn
    BY <1>0, MergedType, MarksAssumption
  <2> QED BY <1>3, <2>1, <2>2, <2>3, <2>4 DEF OnDisk, Readable
<1>4. CASE FlushIndex(h)
  BY <1>4 DEF FlushIndex, OnDisk, Readable
<1>5. CASE ~Rename(h) /\ ~FlushIndex(h)
  <2> SUFFICES UNCHANGED index /\ (index # None => content'[index] = content[index])
    BY <1>5 DEF OnDisk, Readable
  <2>1. CASE Truncate(h)
    <3>1. TmpFile # index
      BY <1>0, <2>1, TmpFileType DEF Truncate, TypeInv
    <3> QED BY <1>0, <2>1, <3>1 DEF Truncate, DiskType
  <2>2. CASE WriteTmp(h)
    <3>1. fd[h] # index
      BY <1>2, <2>2 DEF WriteTmp, WriterOK
    <3> QED BY <1>0, <2>2, <3>1 DEF WriteTmp, DiskType
  <2>3. CASE FlushTmp(h)
    BY <1>0, <2>3 DEF FlushTmp, Deleted, DiskType
  <2>4. CASE ~Truncate(h) /\ ~WriteTmp(h) /\ ~FlushTmp(h)
    <3>1. UNCHANGED <<index, content>>
      BY <1>5, <2>4 DEF HandleStep, open, reindex, write_index, remove, FlushBody, put,
         PutCrashes, Merge, RenameFails, Stop
    <3> QED BY <3>1
  <2> QED BY <2>1, <2>2, <2>3, <2>4
<1> QED BY <1>3, <1>4, <1>5

\* A step is of one handle: the others keep what they have in memory.
LEMMA OthersKeep ==
  ASSUME TypeInv, NEW h \in Handles, HandleStep(h), NEW g \in Handles, g # h
  PROVE  /\ pc'[g] = pc[g] /\ mem'[g] = mem[g] /\ removed'[g] = removed[g]
         /\ merged'[g] = merged[g] /\ fd'[g] = fd[g] /\ changed'[g] = changed[g]
<1>1. HandleType
  BY TypeParts DEF TypeInv
<1> QED BY <1>1 DEF HandleStep, open, reindex, write_index, remove, FlushBody, put,
         PutCrashes, Merge, Truncate, WriteTmp, Rename, RenameFails, FlushIndex, FlushTmp,
         Deletes, Stop, Ends, Goes, Changes, ghosts, HandleType

\* Handles do not begin to write, or to run, while they may not.
LEMMA OneWriterStep ==
  ASSUME TypeInv, OneWriter, NEW h \in Handles, HandleStep(h), UNCHANGED regime
  PROVE  OneWriter'
<1>1. HandleType
  BY TypeParts DEF TypeInv
<1>2. \A g \in Handles \ {h} : /\ Opened(g)' <=> Opened(g)
                               /\ Writing(g)' <=> Writing(g)
  BY OthersKeep DEF Opened, Writing
<1>3. CASE open(h)
  BY <1>1, <1>2, <1>3 DEF open, Goes, OneWriter, Opened, Writing, HandleType
<1>4. CASE Merge(h)
  BY <1>1, <1>2, <1>4 DEF Merge, MayWriteIndex, Goes, OneWriter, Opened, Writing, HandleType
<1>5. CASE ~open(h) /\ ~Merge(h)
  <2>1. Opened(h) /\ (Writing(h)' => Writing(h))
    BY <1>1, <1>5 DEF HandleStep, reindex, write_index, remove, FlushBody, put,
         PutCrashes, Truncate, WriteTmp, Rename, RenameFails, FlushIndex, FlushTmp,
         Deletes, Stop, Ends, Goes, HandleType, Opened, Writing, Ready
  <2> QED BY <1>2, <2>1 DEF OneWriter
<1> QED BY <1>3, <1>4, <1>5

\* A handle that writes is not disturbed by another.
LEMMA OtherWriterOK ==
  ASSUME TypeInv, WriterInv, regime # "shared", NEW h \in Handles, HandleStep(h),
         NEW g \in Handles, g # h
  PROVE  WriterOK(g)'
<1> USE DEF disk, ghosts
<1>1. DiskType /\ HandleType /\ WriterOK(g)
  BY TypeParts DEF TypeInv, WriterInv
<1>2. /\ pc'[g] = pc[g] /\ mem'[g] = mem[g] /\ removed'[g] = removed[g]
      /\ merged'[g] = merged[g] /\ fd'[g] = fd[g]
  BY OthersKeep
<1>3. CASE ~Writing(g)
  BY <1>2, <1>3 DEF WriterOK, Writing
<1>4. CASE Writing(g)
  <2>1. ~Writing(h) /\ ~FlushIndex(h)
    BY <1>4, OneWriterType, FlushIndexAlone
  <2>2. ~Truncate(h) /\ ~WriteTmp(h) /\ ~Rename(h) /\ ~RenameFails(h)
    BY <2>1 DEF Truncate, WriteTmp, Rename, RenameFails, Writing
  <2>3. OnDisk' = OnDisk /\ UNCHANGED index
    BY <2>1, <2>2, ManifestSteps
  <2>4. Merged(g)' = Merged(g)
    BY <1>2, <2>3 DEF Merged
  <2>5. CASE FlushTmp(h)
    BY <1>1, <1>2, <2>3, <2>4, <2>5 DEF FlushTmp, Deleted, WriterOK, Writing, DiskType
  <2>6. CASE ~FlushTmp(h)
    <3>1. UNCHANGED <<tmp, content>>
      BY <2>1, <2>2, <2>6 DEF HandleStep, open, reindex, write_index, remove, FlushBody, put,
         PutCrashes, Merge, Stop
    <3> QED BY <1>1, <1>2, <2>3, <2>4, <3>1 DEF WriterOK, Writing
  <2> QED BY <2>5, <2>6
<1> QED BY <1>3, <1>4

\* A handle that writes follows its own protocol.
LEMMA OwnWriterOK ==
  ASSUME TypeInv, WriterInv, regime # "shared", NEW h \in Handles, HandleStep(h)
  PROVE  WriterOK(h)'
<1> USE DEF disk, ghosts
<1>1. DiskType /\ HandleType /\ WriterOK(h)
  BY TypeParts DEF TypeInv, WriterInv
<1>2. CASE Merge(h)
  <2>1. OnDisk' = OnDisk
    BY <1>2, ManifestSteps DEF Merge, Rename, FlushIndex, Deletes
  <2>2. Merged(h)' = Merged(h)
    BY <1>2, <2>1 DEF Merge, Merged
  <2> QED BY <1>1, <1>2, <2>2 DEF Merge, Goes, WriterOK, Writing, HandleType
<1>3. CASE Truncate(h)
  <2>1. TmpFile \in Files \ {index}
    BY <1>1, <1>3, TmpFileType DEF Truncate, TypeInv
  <2>2. OnDisk' = OnDisk
    BY <1>3, ManifestSteps DEF Truncate, Rename, FlushIndex, Deletes
  <2>3. Merged(h)' = Merged(h)
    BY <1>3, <2>2 DEF Truncate, Merged
  <2> QED BY <1>1, <1>3, <2>1, <2>3 DEF Truncate, Goes, WriterOK, Writing, HandleType, DiskType
<1>4. CASE WriteTmp(h)
  <2>1. OnDisk' = OnDisk
    BY <1>4, ManifestSteps DEF WriteTmp, Rename, FlushIndex, Deletes
  <2>2. Merged(h)' = Merged(h)
    BY <1>4, <2>1 DEF WriteTmp, Merged
  <2>3. content' = [content EXCEPT ![fd[h]] = merged[h]]
    BY <1>1, <1>4 DEF WriteTmp, WriterOK
  <2> QED BY <1>1, <1>4, <2>2, <2>3 DEF WriteTmp, Goes, WriterOK, Writing, HandleType, DiskType
<1>5. CASE ~Merge(h) /\ ~Truncate(h) /\ ~WriteTmp(h)
  <2>1. ~Writing(h)'
    BY <1>1, <1>5 DEF HandleStep, open, reindex, write_index, remove, FlushBody, put,
         PutCrashes, Rename, RenameFails, FlushIndex, FlushTmp,
         Deletes, Stop, Ends, Goes, HandleType, Writing, Ready
  <2> QED BY <2>1 DEF WriterOK, Writing
<1> QED BY <1>2, <1>3, <1>4, <1>5

\* What a handle was told is on disk stays there.
LEMMA PersistedStep ==
  ASSUME TypeInv, WriterInv, regime # "shared", NEW h \in Handles, HandleStep(h)
  PROVE  PersistedKept'
<1>1. DiskType /\ HandleType /\ persisted \subseteq DOMAIN OnDisk
  BY TypeParts DEF TypeInv, WriterInv, PersistedKept
<1>2. CASE Rename(h)
  <2>1. OnDisk' = Merged(h)
    BY <1>2, ManifestSteps DEF Rename, FlushIndex, Deletes
  <2> QED BY <1>1, <1>2, <2>1, MergedType DEF Rename, PersistedKept
<1>3. CASE FlushIndex(h)
  BY <1>3 DEF FlushIndex, Deletes, PersistedKept
<1>4. CASE ~Rename(h) /\ ~FlushIndex(h)
  <2>1. OnDisk' = OnDisk
    BY <1>4, ManifestSteps
  <2>2. persisted' \subseteq persisted
    BY <1>4 DEF HandleStep, open, reindex, write_index, remove, FlushBody, put,
         PutCrashes, Merge, Truncate, WriteTmp, RenameFails, FlushTmp, Deletes, Stop, ghosts
  <2> QED BY <1>1, <2>1, <2>2 DEF PersistedKept
<1> QED BY <1>2, <1>3, <1>4

\* The protocol of the manifest is an invariant.
LEMMA WriterStep == StoreInv /\ [Next]_vars => StoreInv'
<1> SUFFICES ASSUME StoreInv, [Next]_vars PROVE StoreInv'
  OBVIOUS
<1>1. TypeInv /\ WriterInv /\ TypeInv'
  BY NextType DEF StoreInv
<1>2. CASE UNCHANGED vars
  BY <1>1, <1>2 DEF StoreInv, WriterInv, OneWriter, ManifestWhole, PersistedKept, WriterOK,
     Opened, Writing, Merged, OnDisk, Readable, vars, handles, disk, ghosts
<1>3. CASE Next
  <2>1. PICK h \in Handles : HandleStep(h) /\ UNCHANGED regime
    BY <1>3, NextIsHandleStep
  <2>2. OneWriter'
    BY <1>1, <2>1, OneWriterStep DEF WriterInv
  <2>3. ASSUME regime # "shared"
        PROVE  ManifestWhole' /\ PersistedKept' /\ \A g \in Handles : WriterOK(g)'
    <3>1. ManifestWhole'
      <4>1. \/ Readable(index)' \/ index' = None
            \/ (Readable(index)' <=> Readable(index)) /\ UNCHANGED index
        BY <1>1, <2>1, <2>3, ManifestSteps
      <4>2. index # None => Readable(index)
        BY <1>1, <2>3 DEF WriterInv, ManifestWhole
      <4> QED BY <4>1, <4>2 DEF ManifestWhole
    <3>2. PersistedKept'
      BY <1>1, <2>1, <2>3, PersistedStep
    <3>3. ASSUME NEW g \in Handles PROVE WriterOK(g)'
      <4>1. CASE g = h
        BY <1>1, <2>1, <2>3, <4>1, OwnWriterOK
      <4>2. CASE g # h
        BY <1>1, <2>1, <2>3, <4>2, OtherWriterOK
      <4> QED BY <4>1, <4>2
    <3> QED BY <3>1, <3>2, <3>3
  <2>4. regime' = regime
    BY <2>1
  <2> QED BY <1>1, <2>2, <2>3, <2>4 DEF StoreInv, WriterInv
<1> QED BY <1>2, <1>3

\* It holds at the start.
LEMMA WriterInit == Init => StoreInv
<1> SUFFICES ASSUME Init PROVE StoreInv
  OBVIOUS
<1>1. TypeInv
  BY InitType
<1>2. OneWriter /\ ManifestWhole /\ PersistedKept /\ \A h \in Handles : WriterOK(h)
  BY DEF Init, OneWriter, ManifestWhole, PersistedKept, WriterOK, Opened, Writing
<1> QED BY <1>1, <1>2 DEF StoreInv, WriterInv

\* Handles that do not write at the same time never leave a truncated manifest,
\* wherever one dies (write_index: "a crash cannot leave a truncated manifest").
THEOREM ManifestAlwaysWhole == Spec => [](regime # "shared" => ManifestWhole)
<1>1. StoreInv => (regime # "shared" => ManifestWhole)
  BY DEF StoreInv, WriterInv
<1> QED BY <1>1, WriterInit, WriterStep, PTL DEF Spec

\* Nor does one of them drop an entry another has written (write_index: merging
\* is what keeps a second writer from dropping this handle's entries).
THEOREM PersistedAlwaysKept == Spec => [](regime # "shared" => PersistedKept)
<1>1. StoreInv => (regime # "shared" => PersistedKept)
  BY DEF StoreInv, WriterInv
<1> QED BY <1>1, WriterInit, WriterStep, PTL DEF Spec

-----------------------------------------------------------------------------
(* What a handle has in memory and has not changed is what is on disk, with *)
(* one handle at a time or with handles that add keys of their own.         *)

Quiet == regime \in {"alone", "apart"}

Current(h) ==
    /\ \A k \in DOMAIN mem[h] \ changed[h] : k \in DOMAIN OnDisk /\ OnDisk[k] = mem[h][k]
    /\ \A k \in removed[h] \ (changed[h] \union DOMAIN mem[h]) : k \notin DOMAIN OnDisk
    /\ changed[h] \ DOMAIN mem[h] \subseteq removed[h]

\* A handle that is closed has nothing in memory.
Blank(h) == mem[h] = Empty /\ removed[h] = {} /\ changed[h] = {}

HandleCurrent(h) ==
    /\ pc[h] # "flushing" => Current(h)
    /\ pc[h] = "closed" => Blank(h)

\* Handles that only add, each of them keys that no other has.
AddsOnly(h) ==
    /\ removed[h] = {} /\ pc[h] # "flushing"
    /\ changed[h] \intersect DOMAIN OnDisk = {}
    /\ \A g \in Handles \ {h} : changed[h] \intersect DOMAIN mem[g] = {}

CurrentInv ==
    Quiet => \A h \in Handles : HandleCurrent(h) /\ (regime = "apart" => AddsOnly(h))

\* What a handle does to the keys it has, and to the manifest.
LEMMA OwnCurrent ==
  ASSUME StoreInv, Quiet, NEW h \in Handles, HandleCurrent(h), HandleStep(h)
  PROVE  HandleCurrent(h)'
<1> USE DEF disk, ghosts
<1>0. /\ TypeInv /\ WriterInv /\ DiskType /\ HandleType /\ regime # "shared"
      /\ mem[h] \in Manifests /\ OnDisk \in Manifests /\ changed[h] \in SUBSET Keys
      /\ removed[h] \in SUBSET Keys
  BY TypeParts, OnDiskType DEF StoreInv, TypeInv, Quiet, HandleType
<1>1. /\ Rename(h) => OnDisk' = Merged(h)
      /\ ~Rename(h) /\ ~FlushIndex(h) => OnDisk' = OnDisk
  BY <1>0, ManifestSteps DEF Rename, FlushIndex, Deletes
<1>2. CASE open(h)
  <2>1. OnDisk' = OnDisk /\ mem'[h] = OnDisk /\ pc'[h] = "opened" /\ Blank(h)
        /\ removed'[h] = removed[h] /\ changed'[h] = changed[h]
    BY <1>0, <1>2 DEF open, Goes, HandleType, OnDisk, Readable, HandleCurrent
  <2> QED BY <2>1 DEF HandleCurrent, Current, Blank
<1>3. CASE reindex(h)
  <2> DEFINE found == [k \in Bodies |-> Unknown]
  <2>1. /\ OnDisk' = OnDisk /\ mem'[h] = Over(mem[h], found) /\ pc'[h] = "indexing"
        /\ removed'[h] = removed[h] \ (Bodies \ DOMAIN mem[h])
        /\ changed'[h] = changed[h] \union (Bodies \ DOMAIN mem[h]) /\ Current(h)
    BY <1>0, <1>3 DEF reindex, Goes, Changes, HandleType, OnDisk, Readable, HandleCurrent
  <2>2. found \in Manifests /\ DOMAIN found = Bodies
    BY UnknownType DEF Bodies
  <2> HIDE DEF found
  <2>3. /\ DOMAIN mem'[h] = DOMAIN mem[h] \union Bodies
        /\ \A k \in DOMAIN mem[h] : mem'[h][k] = mem[h][k]
    <3> DEFINE both == Over(mem[h], found)
    <3>1. /\ DOMAIN both = DOMAIN mem[h] \union DOMAIN found
          /\ \A k \in DOMAIN mem[h] : both[k] = mem[h][k]
      BY <1>0, <2>2, MergeType
    <3> HIDE DEF both
    <3> QED BY <2>1, <2>2, <3>1 DEF both
  <2>4. Current(h)'
    BY <2>1, <2>3 DEF Current
  <2> QED BY <2>1, <2>4 DEF HandleCurrent
<1>4. ASSUME NEW k \in Keys, remove(h, k) PROVE HandleCurrent(h)'
  <2>1. /\ OnDisk' = OnDisk /\ mem'[h] = Restrict(mem[h], DOMAIN mem[h] \ {k})
        /\ pc'[h] = "indexing" /\ removed'[h] = removed[h] \union {k}
        /\ changed'[h] = changed[h] \union {k} /\ Current(h)
    BY <1>0, <1>4 DEF remove, Ready, Goes, Changes, HandleType, OnDisk, Readable, HandleCurrent
  <2>2. /\ DOMAIN mem'[h] = DOMAIN mem[h] \ {k}
        /\ \A j \in DOMAIN mem[h] \ {k} : mem'[h][j] = mem[h][j]
    <3> DEFINE rest == Restrict(mem[h], DOMAIN mem[h] \ {k})
    <3>1. DOMAIN rest = DOMAIN mem[h] \ {k} /\ \A j \in DOMAIN mem[h] \ {k} : rest[j] = mem[h][j]
      BY <1>0, RestrictType
    <3> HIDE DEF rest
    <3> QED BY <2>1, <3>1 DEF rest
  <2>3. Current(h)'
    BY <2>1, <2>2 DEF Current
  <2> QED BY <2>1, <2>3 DEF HandleCurrent
<1>5. ASSUME NEW k \in Keys, NEW r \in Stated, put(h, k, r) PROVE HandleCurrent(h)'
  <2>1. /\ OnDisk' = OnDisk /\ mem'[h] = Over(Entry(k, r), mem[h])
        /\ pc'[h] = "ready" /\ removed'[h] = removed[h]
        /\ changed'[h] = changed[h] \union {k} /\ Current(h)
    BY <1>0, <1>5 DEF put, Ready, Goes, Changes, HandleType, OnDisk, Readable, HandleCurrent
  <2>2. /\ DOMAIN mem'[h] = DOMAIN mem[h] \union {k}
        /\ \A j \in DOMAIN mem[h] \ {k} : mem'[h][j] = mem[h][j]
    <3> DEFINE more == Over(Entry(k, r), mem[h])
    <3>1. DOMAIN more = DOMAIN mem[h] \union {k} /\ \A j \in DOMAIN mem[h] \ {k} : more[j] = mem[h][j]
      BY <1>0, SetType
    <3> HIDE DEF more
    <3> QED BY <2>1, <3>1 DEF more
  <2>3. Current(h)'
    BY <2>1, <2>2 DEF Current
  <2> QED BY <2>1, <2>3 DEF HandleCurrent
<1>6. ASSUME Ends(h) PROVE HandleCurrent(h)'
  <2>1. mem'[h] = Empty /\ removed'[h] = {} /\ changed'[h] = {}
    BY <1>0, <1>6 DEF Ends, HandleType
  <2> QED BY <2>1, EmptyType DEF HandleCurrent, Current, Blank
<1>7. CASE Stop(h) \/ \E k \in Keys, r \in Stated : PutCrashes(h, k, r)
  BY <1>6, <1>7 DEF Stop, PutCrashes
<1>8. CASE Rename(h)
  <2>1. /\ OnDisk' = Merged(h) /\ mem'[h] = mem[h] /\ removed'[h] = removed[h]
        /\ changed'[h] = {} /\ pc'[h] = "ready"
    BY <1>0, <1>1, <1>8 DEF Rename, Goes, HandleType
  <2>2. /\ DOMAIN Merged(h) = DOMAIN mem[h] \union (DOMAIN OnDisk \ removed[h])
        /\ \A k \in DOMAIN mem[h] : Merged(h)[k] = mem[h][k]
    BY <1>0, MergedType
  <2>3. Current(h)'
    BY <2>1, <2>2 DEF Current
  <2> QED BY <2>1, <2>3 DEF HandleCurrent
<1>9. ASSUME Deletes(h) PROVE HandleCurrent(h)'
  BY <1>0, <1>9 DEF Deletes, Goes, HandleType, HandleCurrent
<1>10. CASE FlushIndex(h) \/ FlushTmp(h) \/ \E k \in Keys : FlushBody(h, k)
  BY <1>9, <1>10 DEF FlushIndex, FlushTmp, FlushBody
<1>11. CASE write_index(h) \/ Merge(h) \/ Truncate(h) \/ WriteTmp(h) \/ RenameFails(h)
  <2>1. /\ UNCHANGED <<mem, removed, changed>> /\ pc'[h] \notin {"closed", "flushing"}
        /\ pc[h] # "flushing"
    BY <1>0, <1>11 DEF write_index, Ready, Merge, Truncate, WriteTmp, RenameFails, Goes, HandleType
  <2>2. ~Rename(h) /\ ~FlushIndex(h)
    BY <1>0, <1>11 DEF write_index, Ready, Merge, Truncate, WriteTmp, RenameFails, Rename,
       FlushIndex, Deletes, Goes, HandleType
  <2>3. OnDisk' = OnDisk /\ Current(h)
    BY <1>1, <2>1, <2>2 DEF HandleCurrent
  <2>4. Current(h)'
    BY <2>1, <2>3 DEF Current
  <2> QED BY <2>1, <2>4 DEF HandleCurrent
<1> QED BY <1>2, <1>3, <1>4, <1>5, <1>7, <1>8, <1>10, <1>11 DEF HandleStep

\* What a step of a handle that only adds does to its keys and to the manifest.
LEMMA AddsOnlyOwn ==
  ASSUME StoreInv, regime = "apart", NEW h \in Handles, HandleStep(h), HandleCurrent(h),
         AddsOnly(h)
  PROVE  /\ removed'[h] = {} /\ pc'[h] # "flushing"
         /\ changed'[h] \intersect DOMAIN OnDisk' = {}
         /\ \A g \in Handles \ {h} : changed'[h] \intersect DOMAIN mem[g] = {}
         /\ \/ OnDisk' = OnDisk
            \/ OnDisk' = Merged(h) /\ changed'[h] = {}
         /\ DOMAIN mem'[h] \subseteq DOMAIN mem[h] \union DOMAIN OnDisk \union changed'[h]
         /\ \A k \in changed'[h] \ changed[h] :
               k \notin DOMAIN OnDisk /\ \A g \in Handles \ {h} : k \notin DOMAIN mem[g]
<1> USE DEF disk, ghosts
<1>0. /\ TypeInv /\ WriterInv /\ DiskType /\ HandleType /\ regime # "shared"
      /\ mem[h] \in Manifests /\ OnDisk \in Manifests
  BY TypeParts, OnDiskType DEF StoreInv, TypeInv, HandleType
<1>1. ~Deletes(h) /\ \A k \in Keys : ~remove(h, k)
  BY DEF Deletes, remove
<1>2. /\ Rename(h) => OnDisk' = Merged(h)
      /\ ~Rename(h) => OnDisk' = OnDisk
  BY <1>0, <1>1, ManifestSteps DEF FlushIndex
<1>3. CASE open(h)
  <2>1. /\ mem'[h] = OnDisk /\ pc'[h] = "opened" /\ changed'[h] = changed[h]
        /\ removed'[h] = removed[h] /\ OnDisk' = OnDisk
    BY <1>0, <1>3 DEF open, Goes, HandleType, OnDisk, Readable
  <2> QED BY <2>1 DEF AddsOnly
<1>4. CASE reindex(h)
  <2> DEFINE found == [k \in Bodies |-> Unknown]
  <2> DEFINE fresh == Bodies \ DOMAIN mem[h]
  <2>1. /\ mem'[h] = Over(mem[h], found) /\ pc'[h] = "indexing" /\ OnDisk' = OnDisk
        /\ changed'[h] = changed[h] \union fresh /\ removed'[h] = removed[h] \ fresh
    BY <1>0, <1>4 DEF reindex, Goes, Changes, HandleType, OnDisk, Readable
  <2>2. \A k \in fresh : k \notin DOMAIN OnDisk /\ \A g \in Handles \ {h} : k \notin DOMAIN mem[g]
    BY <1>4 DEF reindex, MayWrite
  <2>3. DOMAIN found = Bodies
    OBVIOUS
  <2>4. DOMAIN mem'[h] \subseteq DOMAIN mem[h] \union fresh
    <3>1. DOMAIN Over(mem[h], found) = DOMAIN mem[h] \union DOMAIN found
      BY DEF Over
    <3> QED BY <2>1, <2>3, <3>1
  <2> HIDE DEF fresh, found
  <2> QED BY <2>1, <2>2, <2>4 DEF AddsOnly
<1>5. ASSUME NEW k \in Keys, NEW r \in Stated, put(h, k, r)
      PROVE  /\ removed'[h] = {} /\ pc'[h] # "flushing"
             /\ changed'[h] = changed[h] \union {k} /\ DOMAIN mem'[h] = DOMAIN mem[h] \union {k}
             /\ k \notin DOMAIN OnDisk /\ \A g \in Handles \ {h} : k \notin DOMAIN mem[g]
             /\ OnDisk' = OnDisk
  <2>1. /\ mem'[h] = Over(Entry(k, r), mem[h]) /\ pc'[h] = "ready" /\ OnDisk' = OnDisk
        /\ changed'[h] = changed[h] \union {k} /\ removed'[h] = removed[h]
    BY <1>0, <1>5 DEF put, Goes, Changes, HandleType, OnDisk, Readable
  <2>2. k \notin DOMAIN OnDisk /\ \A g \in Handles \ {h} : k \notin DOMAIN mem[g]
    BY <1>5 DEF put, MayWrite
  <2>3. DOMAIN Over(Entry(k, r), mem[h]) = DOMAIN mem[h] \union {k}
    BY DEF Over, Entry
  <2> QED BY <2>1, <2>2, <2>3 DEF AddsOnly
<1>6. CASE \E k \in Keys, r \in Stated : put(h, k, r)
  BY <1>5, <1>6 DEF AddsOnly
<1>7. CASE Ends(h) /\ OnDisk' = OnDisk
  <2>1. mem'[h] = Empty /\ removed'[h] = {} /\ changed'[h] = {} /\ pc'[h] = "closed"
    BY <1>0, <1>7 DEF Ends, Goes, HandleType
  <2> QED BY <1>7, <2>1, EmptyType
<1>8. CASE Rename(h)
  <2>1. /\ mem'[h] = mem[h] /\ removed'[h] = removed[h] /\ changed'[h] = {} /\ pc'[h] = "ready"
    BY <1>0, <1>8 DEF Rename, Goes, HandleType
  <2> QED BY <1>2, <1>8, <2>1 DEF AddsOnly
<1>9. CASE write_index(h) \/ Merge(h) \/ Truncate(h) \/ WriteTmp(h) \/ RenameFails(h)
  <2>1. UNCHANGED <<mem, removed, changed>> /\ pc'[h] # "flushing" /\ ~Rename(h)
    BY <1>0, <1>9 DEF write_index, Ready, Merge, Truncate, WriteTmp, RenameFails, Rename, Goes,
       HandleType
  <2> QED BY <1>2, <2>1 DEF AddsOnly
<1>10. CASE Stop(h) \/ \E k \in Keys, r \in Stated : PutCrashes(h, k, r)
  <2>1. Ends(h) /\ ~Rename(h)
    <3>1. Ends(h) /\ UNCHANGED <<index, tmp, content>>
      BY <1>10 DEF Stop, PutCrashes
    <3>2. pc'[h] = "closed"
      BY <1>0, <3>1 DEF Ends, Goes, HandleType
    <3> QED BY <1>0, <3>1, <3>2 DEF Rename, Goes, HandleType
  <2> QED BY <1>2, <1>7, <2>1
<1> QED BY <1>1, <1>3, <1>4, <1>6, <1>8, <1>9, <1>10
        DEF HandleStep, FlushIndex, FlushTmp, FlushBody

\* A handle that only adds leaves what the others have as it was.
LEMMA OthersCurrent ==
  ASSUME StoreInv, CurrentInv, regime = "apart", NEW h \in Handles, HandleStep(h),
         NEW g \in Handles \ {h}
  PROVE  HandleCurrent(g)' /\ AddsOnly(g)'
<1>0. /\ HandleCurrent(h) /\ AddsOnly(h) /\ HandleCurrent(g) /\ AddsOnly(g)
      /\ \A f \in Handles : AddsOnly(f)
      /\ TypeInv /\ DiskType /\ HandleType
  BY TypeParts DEF CurrentInv, Quiet, StoreInv, TypeInv
<1>1. /\ pc'[g] = pc[g] /\ mem'[g] = mem[g] /\ removed'[g] = removed[g]
      /\ changed'[g] = changed[g]
  BY <1>0, OthersKeep
<1>2. /\ \/ OnDisk' = OnDisk
         \/ OnDisk' = Merged(h) /\ changed'[h] = {}
      /\ DOMAIN mem'[h] \subseteq DOMAIN mem[h] \union DOMAIN OnDisk \union changed'[h]
      /\ changed'[h] \intersect DOMAIN mem[g] = {}
      /\ \A k \in changed'[h] \ changed[h] : k \notin DOMAIN OnDisk /\ k \notin DOMAIN mem[g]
  BY <1>0, AddsOnlyOwn
<1>3. /\ DOMAIN Merged(h) = DOMAIN mem[h] \union (DOMAIN OnDisk \ removed[h])
      /\ \A k \in DOMAIN mem[h] : Merged(h)[k] = mem[h][k]
      /\ \A k \in DOMAIN OnDisk \ (removed[h] \union DOMAIN mem[h]) : Merged(h)[k] = OnDisk[k]
  BY <1>0, MergedType
<1>4. \A k \in DOMAIN OnDisk : k \in DOMAIN OnDisk' /\ (k \in DOMAIN mem[g] => OnDisk'[k] = OnDisk[k])
  BY <1>0, <1>2, <1>3 DEF AddsOnly, HandleCurrent, Current
<1>5. DOMAIN OnDisk' \subseteq DOMAIN OnDisk \union DOMAIN mem[h]
  BY <1>2, <1>3
<1>6. changed[g] \intersect DOMAIN mem[h] = {} /\ changed[g] \intersect DOMAIN OnDisk = {}
      /\ changed[g] \subseteq DOMAIN mem[g]
  BY <1>0 DEF AddsOnly, HandleCurrent, Current
<1>7. Current(g)'
  BY <1>0, <1>1, <1>4 DEF AddsOnly, HandleCurrent, Current
<1>8. \A f \in Handles \ {g} : changed[g] \intersect DOMAIN mem'[f] = {}
  <2>1. changed[g] \intersect DOMAIN mem'[h] = {}
    BY <1>2, <1>6
  <2>2. ASSUME NEW f \in Handles \ {g}, f # h PROVE mem'[f] = mem[f]
    BY <1>0, <2>2, OthersKeep
  <2> QED BY <1>0, <2>1, <2>2 DEF AddsOnly
<1> QED BY <1>0, <1>1, <1>5, <1>6, <1>7, <1>8 DEF HandleCurrent, AddsOnly, Blank

\* With one handle at a time, the others are closed.
LEMMA ClosedCurrent ==
  ASSUME StoreInv, CurrentInv, regime = "alone", NEW h \in Handles, HandleStep(h),
         NEW g \in Handles \ {h}
  PROVE  HandleCurrent(g)'
<1>1. pc[g] = "closed"
  <2>1. CASE open(h)
    BY <2>1 DEF open, Opened
  <2>2. CASE ~open(h)
    <3>1. Opened(h)
      BY <2>2 DEF HandleStep, reindex, write_index, remove, FlushBody, put,
         PutCrashes, Merge, Truncate, WriteTmp, Rename, RenameFails, FlushIndex, FlushTmp,
         Deletes, Stop, Opened, Ready
    <3> QED BY <3>1 DEF StoreInv, WriterInv, OneWriter, Opened
  <2> QED BY <2>1, <2>2
<1>2. Blank(g)
  BY <1>1 DEF CurrentInv, Quiet, HandleCurrent
<1>3. pc'[g] = "closed" /\ mem'[g] = Empty /\ removed'[g] = {} /\ changed'[g] = {}
  BY <1>1, <1>2, OthersKeep DEF StoreInv, Blank
<1> QED BY <1>3, EmptyType DEF HandleCurrent, Current, Blank

\* Every handle stays current.
LEMMA CurrentStep ==
  ASSUME StoreInv, CurrentInv, NEW h \in Handles, HandleStep(h), UNCHANGED regime
  PROVE  CurrentInv'
<1> SUFFICES ASSUME Quiet, NEW g \in Handles
             PROVE  HandleCurrent(g)' /\ (regime = "apart" => AddsOnly(g)')
  BY DEF CurrentInv, Quiet
<1>1. HandleCurrent(h)'
  BY OwnCurrent DEF CurrentInv
<1>2. CASE regime = "apart" /\ g # h
  BY <1>2, OthersCurrent
<1>3. CASE regime = "apart" /\ g = h
  <2>1. \A f \in Handles \ {h} : mem'[f] = mem[f]
    BY OthersKeep DEF StoreInv
  <2>2. AddsOnly(h)'
    BY <1>3, <2>1, AddsOnlyOwn DEF CurrentInv, AddsOnly
  <2> QED BY <1>1, <1>3, <2>2
<1>4. CASE regime = "alone"
  BY <1>1, <1>4, ClosedCurrent
<1> QED BY <1>2, <1>3, <1>4 DEF Quiet

\* Every handle is current.
LEMMA CurrentInductive ==
  /\ Init => CurrentInv
  /\ StoreInv /\ CurrentInv /\ [Next]_vars => CurrentInv'
<1>1. Init => CurrentInv
  BY EmptyType DEF Init, CurrentInv, HandleCurrent, AddsOnly, Current, Blank
<1>2. ASSUME StoreInv, CurrentInv, UNCHANGED vars PROVE CurrentInv'
  BY <1>2 DEF CurrentInv, Quiet, HandleCurrent, AddsOnly, Current, Blank, vars, handles, disk,
     ghosts, OnDisk, Readable
<1>3. ASSUME StoreInv, CurrentInv, Next PROVE CurrentInv'
  BY <1>3, NextIsHandleStep, CurrentStep
<1> QED BY <1>1, <1>2, <1>3

-----------------------------------------------------------------------------
(* The cache implements the abstract manifest.                             *)

Stages == [g \in Handles |-> Stage(g)]

\* The stage of one handle is all that may change.
LEMMA StageSteps ==
  ASSUME TypeInv, NEW h \in Handles, HandleStep(h)
  PROVE  Stages' = [Stages EXCEPT ![h] = Stage(h)']
<1>1. \A g \in Handles \ {h} : Stage(g)' = Stage(g)
  BY OthersKeep DEF Stage
<1> QED BY <1>1 DEF Stages

\* The two modules lay one manifest over another in the same way.
LEMMA SameOver ==
  /\ \A m, n : Store!Over(m, n) = Over(m, n)
  /\ \A m, S : Store!Restrict(m, S) = Restrict(m, S)
  BY DEF Store!Over, Over, Store!Restrict, Restrict

\* The merge of a handle that is current writes what it has changed, and nothing
\* else.
LEMMA MergeWritesChanges ==
  ASSUME StoreInv, NEW h \in Handles, Current(h)
  PROVE  Merged(h) = Store!Over(Store!Restrict(mem[h], DOMAIN mem[h] \intersect changed[h]),
                                Store!Restrict(OnDisk, DOMAIN OnDisk \ changed[h]))
<1> DEFINE A == DOMAIN mem[h] \intersect changed[h]
<1> DEFINE B == DOMAIN OnDisk \ changed[h]
<1> DEFINE D == DOMAIN mem[h]
<1> DEFINE K == DOMAIN OnDisk \ removed[h]
<1>1. Merged(h) = [k \in D \union K |-> IF k \in D THEN mem[h][k] ELSE OnDisk[k]]
  BY DEF Merged, Over, Restrict
<1>2. Over(Restrict(mem[h], A), Restrict(OnDisk, B))
        = [k \in A \union B |-> IF k \in A THEN mem[h][k] ELSE OnDisk[k]]
  BY DEF Over, Restrict
<1>3. D \union K = A \union B
  BY DEF Current
<1>4. \A k \in A \union B :
        (IF k \in A THEN mem[h][k] ELSE OnDisk[k]) = (IF k \in D THEN mem[h][k] ELSE OnDisk[k])
  BY DEF Current
<1>5. Merged(h) = Over(Restrict(mem[h], A), Restrict(OnDisk, B))
  <2> HIDE DEF A, B, D, K
  <2> QED BY <1>1, <1>2, <1>3, <1>4
<1> QED BY <1>5, SameOver

\* Every step of a handle is a step of the abstract manifest, or changes nothing
\* a user of it sees.
LEMMA StepRefines ==
  ASSUME StoreInv, CurrentInv, Quiet, NEW h \in Handles, HandleStep(h)
  PROVE  Store!StoreNext \/ UNCHANGED Store!storeVars
<1> USE DEF Store!storeVars, disk, ghosts
<1>0. TypeInv /\ WriterInv /\ regime # "shared" /\ DiskType /\ HandleType
  BY TypeParts DEF StoreInv, TypeInv, Quiet
<1>1. Stages' = [Stages EXCEPT ![h] = Stage(h)'] /\ Stages[h] = Stage(h)
  BY <1>0, StageSteps DEF Stages
<1>2. ~Rename(h) /\ ~FlushIndex(h) => OnDisk' = OnDisk
  BY <1>0, ManifestSteps
<1>3. Stage(h)' = Stage(h) => Stages' = Stages
  BY <1>1 DEF Stages
<1>4. CASE open(h)
  <2>1. Stage(h) = "closed" /\ Stage(h)' = "open"
    BY <1>0, <1>4 DEF open, Goes, Stage, HandleType
  <2>2. OnDisk' = OnDisk
    BY <1>2, <1>4 DEF open, Rename, FlushIndex, Deletes
  <2>3. Store!Open(h)
    BY <1>1, <1>4, <2>1, <2>2 DEF open, Store!Open, Stages
  <2> QED BY <2>3 DEF Store!StoreNext
<1>5. CASE reindex(h)
  <2>1. Stage(h) = "open" /\ Stage(h)' = "open"
    BY <1>0, <1>5 DEF reindex, Changes, Goes, Stage, HandleType
  <2>2. OnDisk' = OnDisk
    BY <1>5 DEF reindex, OnDisk, Readable, disk
  <2>3. Store!Recover(h, Bodies)
    BY <1>1, <1>3, <1>5, <2>1, <2>2, SameOver DEF reindex, Changes, Store!Recover, Stages
  <2>4. Bodies \in SUBSET Store!Entries
    BY DEF Bodies, Keys, Store!Entries
  <2> QED BY <2>3, <2>4 DEF Store!StoreNext
<1>6. ASSUME NEW k \in Keys, remove(h, k)
      PROVE  Store!StoreNext
  <2>1. Stage(h) = "open" /\ Stage(h)' = "open"
    BY <1>0, <1>6 DEF remove, Ready, Goes, Stage, HandleType
  <2>2. OnDisk' = OnDisk
    BY <1>2, <1>6 DEF remove, Ready, Rename, FlushIndex, Deletes, OnDisk, Readable
  <2>3. Store!Delete(h, k)
    BY <1>1, <1>3, <1>6, <2>1, <2>2, SameOver DEF remove, Changes, Store!Delete, Stages
  <2>4. k \in Store!Entries
    BY DEF Keys, Store!Entries
  <2> QED BY <2>3, <2>4 DEF Store!StoreNext
<1>7. ASSUME NEW k \in Keys, NEW r \in Stated, put(h, k, r)
      PROVE  Store!StoreNext
  <2>1. Stage(h) = "open" /\ Stage(h)' = "open"
    BY <1>0, <1>7 DEF put, Ready, Goes, Stage, HandleType
  <2>2. OnDisk' = OnDisk
    BY <1>7 DEF put, OnDisk, Readable
  <2>3. mem' = [mem EXCEPT ![h] = Store!Over(Entry(k, r), mem[h])]
    BY <1>7, SameOver DEF put
  <2>4. ~Store!Pinned(h, k, r)
    BY <1>7 DEF put, would_orphan, Store!Pinned
  <2>5. Store!Put(h, k, r)
    BY <1>1, <1>3, <1>7, <2>1, <2>2, <2>3, <2>4 DEF put, Changes, Store!Put, Entry, Stages
  <2>6. k \in Store!Entries /\ r \in Revs \union {Unknown}
    BY DEF Keys, Store!Entries, Stated
  <2> QED BY <2>5, <2>6 DEF Store!StoreNext
<1>8. ASSUME Ends(h), Stage(h) # "closed", OnDisk' = OnDisk
      PROVE  Store!StoreNext
  <2>1. Stage(h)' = "closed"
    BY <1>0, <1>8 DEF Ends, Goes, Stage, HandleType
  <2>2. Store!Close(h)
    BY <1>1, <1>8, <2>1 DEF Ends, Store!Close, Store!Nothing, Empty, Stages
  <2> QED BY <2>2 DEF Store!StoreNext
<1>9. ASSUME NEW k \in Keys, NEW r \in Stated, PutCrashes(h, k, r)
      PROVE  Store!StoreNext
  BY <1>8, <1>9 DEF PutCrashes, Ready, Stage, OnDisk, Readable
<1>10. CASE Stop(h)
  BY <1>8, <1>10 DEF Stop, Opened, Stage, OnDisk, Readable, disk
<1>11. CASE Rename(h)
  <2>1. Stage(h) = "open" /\ Stage(h)' = "open"
    BY <1>0, <1>11 DEF Rename, Goes, Stage, HandleType
  <2>2. OnDisk' = Merged(h)
    BY <1>0, <1>11, ManifestSteps DEF Rename, FlushIndex, Deletes
  <2>3. Current(h)
    BY <1>11 DEF CurrentInv, HandleCurrent, Rename
  <2>4. Store!Commit(h)
    BY <1>1, <1>3, <1>11, <2>1, <2>2, <2>3, MergeWritesChanges DEF Rename, Store!Commit, Stages
  <2> QED BY <2>4 DEF Store!StoreNext
<1>12. ASSUME Deletes(h), OnDisk' \in {OnDisk, Empty}
       PROVE  Store!StoreNext
  <2>1. Stage(h) \in {"open", "flushing"} /\ Stage(h)' = "flushing"
    BY <1>0, <1>12 DEF Deletes, Goes, Stage, HandleType
  <2>2. Store!Flush(h)
    BY <1>1, <1>12, <2>1 DEF Deletes, Store!Flush, Store!Nothing, Empty, Stages
  <2> QED BY <2>2 DEF Store!StoreNext
<1>13. CASE FlushIndex(h)
  BY <1>0, <1>12, <1>13, ManifestSteps DEF FlushIndex, Deletes, Rename
<1>14. CASE FlushTmp(h)
  BY <1>2, <1>12, <1>13, <1>14 DEF FlushTmp, Deletes, Rename
<1>15. ASSUME NEW k \in Keys, FlushBody(h, k)
       PROVE  Store!StoreNext
  BY <1>12, <1>15 DEF FlushBody, OnDisk, Readable
<1>16. CASE write_index(h) \/ Merge(h) \/ Truncate(h) \/ WriteTmp(h) \/ RenameFails(h)
  <2>1. Stage(h)' = Stage(h)
    BY <1>0, <1>16 DEF write_index, Ready, Merge, Truncate, WriteTmp, RenameFails, Goes, Stage,
       HandleType
  <2>2. ~Rename(h) /\ ~FlushIndex(h)
    BY <1>0, <1>16 DEF write_index, Ready, Merge, Truncate, WriteTmp, RenameFails, Rename,
       FlushIndex, Deletes, Goes, HandleType
  <2>3. UNCHANGED <<mem, changed>>
    BY <1>16 DEF write_index, Merge, Truncate, WriteTmp, RenameFails
  <2> QED BY <1>2, <1>3, <2>1, <2>2, <2>3 DEF Stages
<1> QED BY <1>4, <1>5, <1>6, <1>7, <1>9, <1>10, <1>11, <1>13, <1>14, <1>15, <1>16
        DEF HandleStep

\* With one handle at a time, or with handles that add keys of their own, reading,
\* merging, the temporary file and the rename together are one write of what the
\* handle has changed, and of nothing else (write_index).
THEOREM CacheImplementsStore == Spec => ImplementsStore
<1>1. Init => Store!StoreInit
  BY DEF Init, Store!StoreInit, Store!Nothing, Empty, Stage, OnDisk, Readable
<1>2. StoreInv /\ CurrentInv /\ [Next]_vars => [StoreStep]_(Store!storeVars)
  <2> SUFFICES ASSUME StoreInv, CurrentInv, Quiet, [Next]_vars
               PROVE  [Store!StoreNext]_(Store!storeVars)
    BY DEF Quiet, StoreStep
  <2>1. CASE UNCHANGED vars
    BY <2>1 DEF vars, handles, disk, ghosts, Store!storeVars, Stage, OnDisk, Readable
  <2>2. CASE Next
    BY <2>2, NextIsHandleStep, StepRefines
  <2> QED BY <2>1, <2>2
<1> QED BY <1>1, <1>2, WriterInit, WriterStep, CurrentInductive, PTL DEF Spec, ImplementsStore

-----------------------------------------------------------------------------
(* A pinned baseline.                                                      *)

\* The entry m has of a baseline, if it is pinned, is that of its body.
Faithful(m) ==
    \A k \in DOMAIN m \intersect Baselines :
        m[k] # Unknown => body[k] \in {m[k], Torn, None}

\* Of the baselines pinned on disk, the one open handle has the same entry, or
\* it has deleted them and is about to write that.
Follows(h) ==
    \A k \in DOMAIN OnDisk \intersect Baselines :
        OnDisk[k] # Unknown =>
            \/ k \in DOMAIN mem[h] /\ mem[h][k] = OnDisk[k]
            \/ /\ k \in removed[h] \ DOMAIN mem[h]
               /\ pc[h] \in {"indexing", "merged", "truncated", "written"}

AloneInv ==
    /\ Faithful(OnDisk)
    /\ \A h \in Handles :
          /\ Faithful(mem[h])
          /\ Opened(h) => Follows(h)
          /\ ~Opened(h) => mem[h] = Empty
          /\ pc[h] \in {"truncated", "written"} => tmp # None

PinInv == regime = "alone" => AloneInv

LEMMA PinnedIsFaithful ==
  PinnedIsItself <=>
     (regime = "alone" => Faithful(OnDisk) /\ \A h \in Handles : Faithful(mem[h]))
  BY DEF PinnedIsItself, Held, Faithful

\* The other handles are closed, and stay so.
LEMMA OthersClosed ==
  ASSUME StoreInv, AloneInv, regime = "alone", NEW h \in Handles, HandleStep(h),
         NEW g \in Handles, g # h
  PROVE  ~Opened(g) /\ mem[g] = Empty /\ ~Opened(g)' /\ mem'[g] = Empty /\ pc'[g] = "closed"
<1>1. CASE open(h)
  <2>1. ~Opened(g)
    BY <1>1 DEF open
  <2> QED BY <2>1, OthersKeep DEF StoreInv, AloneInv, Opened
<1>2. CASE ~open(h)
  <2>1. Opened(h)
    BY <1>2 DEF HandleStep, reindex, write_index, remove, FlushBody, put,
         PutCrashes, Merge, Truncate, WriteTmp, Rename, RenameFails, FlushIndex, FlushTmp,
         Deletes, Stop, Ends, Goes, Opened, Ready
  <2>2. ~Opened(g)
    BY <2>1 DEF StoreInv, WriterInv, OneWriter
  <2> QED BY <2>2, OthersKeep DEF StoreInv, AloneInv, Opened
<1> QED BY <1>1, <1>2

\* What is left to show of a step: the one open handle and the disk.
LEMMA AloneSuffices ==
  ASSUME StoreInv, AloneInv, regime = "alone", NEW h \in Handles, HandleStep(h),
         Faithful(OnDisk)', Faithful(mem[h])', Opened(h)' => Follows(h)',
         ~Opened(h)' => mem'[h] = Empty, pc'[h] \in {"truncated", "written"} => tmp' # None
  PROVE  AloneInv'
<1> SUFFICES ASSUME NEW g \in Handles, g # h
             PROVE  /\ Faithful(mem[g])'
                    /\ Opened(g)' => Follows(g)'
                    /\ ~Opened(g)' => mem'[g] = Empty
                    /\ pc'[g] \in {"truncated", "written"} => tmp' # None
  BY DEF AloneInv
<1> QED BY OthersClosed, EmptyType DEF Faithful

\* A run that has the cache to itself keeps every pinned baseline.
LEMMA AloneStep ==
  ASSUME StoreInv, AloneInv, regime = "alone", NEW h \in Handles, HandleStep(h)
  PROVE  AloneInv'
<1> USE DEF disk, ghosts
<1> DEFINE Shown == /\ Faithful(OnDisk)' /\ Faithful(mem[h])' /\ (Opened(h)' => Follows(h)')
                    /\ (~Opened(h)' => mem'[h] = Empty)
                    /\ (pc'[h] \in {"truncated", "written"} => tmp' # None)
<1> SUFFICES Shown
  BY AloneSuffices
<1>0. /\ DiskType /\ HandleType /\ Faithful(OnDisk) /\ Faithful(mem[h])
      /\ Opened(h) => Follows(h)
      /\ ~Opened(h) => mem[h] = Empty
      /\ pc[h] \in {"truncated", "written"} => tmp # None
  BY TypeParts DEF StoreInv, TypeInv, AloneInv
<1>1. /\ ~Rename(h) /\ ~FlushIndex(h) => OnDisk' = OnDisk
      /\ FlushIndex(h) /\ ~Rename(h) => OnDisk' = Empty
      /\ Rename(h) => OnDisk' = Merged(h)
  <2>1. ~(Rename(h) /\ FlushIndex(h))
    BY DEF Rename, FlushIndex, Deletes
  <2>2. \/ Rename(h) /\ OnDisk' = Merged(h)
        \/ FlushIndex(h) /\ OnDisk' = Empty
        \/ ~Rename(h) /\ OnDisk' = OnDisk
    BY ManifestSteps DEF StoreInv
  <2>3. FlushIndex(h) => index' = None /\ OnDisk' = Empty
    BY DEF FlushIndex, OnDisk, Readable
  <2> QED BY <2>1, <2>2, <2>3
<1>2. mem[h] \in Manifests /\ OnDisk \in Manifests
  BY <1>0, OnDiskType DEF HandleType
<1>3. CASE open(h)
  <2>1. OnDisk' = OnDisk /\ UNCHANGED body
    BY <1>3 DEF open, OnDisk, Readable
  <2>2. mem'[h] = OnDisk /\ pc'[h] = "opened"
    BY <1>0, <1>3 DEF open, Goes, HandleType
  <2> QED BY <1>0, <2>1, <2>2 DEF Faithful, Follows, Opened
<1>4. CASE reindex(h)
  <2>1. OnDisk' = OnDisk /\ UNCHANGED body /\ pc[h] = "opened"
    BY <1>4 DEF reindex, OnDisk, Readable
  <2> DEFINE found == [k \in Bodies |-> Unknown]
  <2>2. mem'[h] = Over(mem[h], found) /\ pc'[h] = "indexing"
    BY <1>0, <1>4 DEF reindex, Changes, Goes, HandleType
  <2>3. found \in Manifests /\ \A k \in DOMAIN found : found[k] = Unknown
    BY UnknownType DEF Bodies
  <2> HIDE DEF found
  <2>4. /\ DOMAIN mem'[h] = DOMAIN mem[h] \union DOMAIN found
        /\ \A k \in DOMAIN mem[h] : mem'[h][k] = mem[h][k]
        /\ \A k \in DOMAIN found \ DOMAIN mem[h] : mem'[h][k] = Unknown
    <3> DEFINE both == Over(mem[h], found)
    <3>1. /\ DOMAIN both = DOMAIN mem[h] \union DOMAIN found
          /\ \A k \in DOMAIN mem[h] : both[k] = mem[h][k]
          /\ \A k \in DOMAIN found \ DOMAIN mem[h] : both[k] = found[k]
      BY <1>2, <2>3, MergeType
    <3> HIDE DEF both
    <3> QED BY <2>2, <2>3, <3>1 DEF both
  <2>5. Follows(h)
    BY <1>0, <2>1 DEF Opened
  <2>6. Faithful(mem[h])'
    BY <1>0, <2>1, <2>4 DEF Faithful
  <2>7. Follows(h)'
    BY <2>1, <2>2, <2>4, <2>5 DEF Follows
  <2> QED BY <1>0, <2>1, <2>2, <2>6, <2>7 DEF Faithful, Opened
<1>5. ASSUME NEW k \in Keys, remove(h, k) PROVE Shown
  <2>1. OnDisk' = OnDisk /\ body' = [body EXCEPT ![k] = None] /\ Ready(h)
    BY <1>5 DEF remove, OnDisk, Readable
  <2>2. /\ mem'[h] = Restrict(mem[h], DOMAIN mem[h] \ {k}) /\ pc'[h] = "indexing"
        /\ removed'[h] = removed[h] \union {k}
    BY <1>0, <1>5 DEF remove, Changes, Goes, HandleType
  <2>3. /\ DOMAIN mem'[h] = DOMAIN mem[h] \ {k}
        /\ \A j \in DOMAIN mem[h] \ {k} : mem'[h][j] = mem[h][j]
    <3> DEFINE rest == Restrict(mem[h], DOMAIN mem[h] \ {k})
    <3>1. /\ DOMAIN rest = DOMAIN mem[h] \ {k}
          /\ \A j \in DOMAIN mem[h] \ {k} : rest[j] = mem[h][j]
      BY <1>2, RestrictType
    <3> HIDE DEF rest
    <3> QED BY <2>2, <3>1 DEF rest
  <2>4. DOMAIN mem[h] \subseteq Keys /\ DOMAIN OnDisk \subseteq Keys
    BY <1>2 DEF Manifests
  <2>5. Faithful(OnDisk)' /\ Faithful(mem[h])'
    BY <1>0, <2>1, <2>3, <2>4 DEF Faithful, DiskType
  <2>6. Follows(h)
    BY <1>0, <2>1 DEF Opened, Ready
  <2>7. Follows(h)'
    BY <2>1, <2>2, <2>3, <2>6 DEF Follows, Ready
  <2> QED BY <2>2, <2>5, <2>7 DEF Opened
<1>6. ASSUME NEW k \in Keys, NEW r \in Stated, put(h, k, r) PROVE Shown
  <2>1. OnDisk' = OnDisk /\ body' = [body EXCEPT ![k] = r] /\ Ready(h)
    BY <1>6 DEF put, OnDisk, Readable
  <2>2. mem'[h] = Over(Entry(k, r), mem[h]) /\ pc'[h] = "ready" /\ removed' = removed
    BY <1>0, <1>6 DEF put, Changes, Goes, HandleType
  <2>3. /\ DOMAIN mem'[h] = DOMAIN mem[h] \union {k} /\ mem'[h][k] = r
        /\ \A j \in DOMAIN mem[h] \ {k} : mem'[h][j] = mem[h][j]
    <3> DEFINE more == Over(Entry(k, r), mem[h])
    <3>1. /\ DOMAIN more = DOMAIN mem[h] \union {k} /\ more[k] = r
          /\ \A j \in DOMAIN mem[h] \ {k} : more[j] = mem[h][j]
      BY <1>2, SetType
    <3> HIDE DEF more
    <3> QED BY <2>2, <3>1 DEF more
  <2>4. DOMAIN mem[h] \subseteq Keys /\ DOMAIN OnDisk \subseteq Keys
    BY <1>2 DEF Manifests
  <2>5. k \in Baselines /\ k \in DOMAIN mem[h] => mem[h][k] \in {Unknown, r}
    BY <1>6 DEF put, would_orphan
  <2>6. \A j \in DOMAIN OnDisk \intersect Baselines :
           OnDisk[j] # Unknown => j \in DOMAIN mem[h] /\ mem[h][j] = OnDisk[j]
    BY <1>0, <2>1 DEF Follows, Opened, Ready
  <2>7. Faithful(OnDisk)' /\ Faithful(mem[h])'
    BY <1>0, <2>1, <2>3, <2>4, <2>5, <2>6 DEF Faithful, DiskType
  <2>8. Follows(h)'
    BY <2>1, <2>2, <2>3, <2>5, <2>6 DEF Follows
  <2> QED BY <2>2, <2>7, <2>8 DEF Opened
<1>7. ASSUME Ends(h), OnDisk' = OnDisk, Faithful(OnDisk)' PROVE Shown
  <2>1. mem'[h] = Empty /\ pc'[h] = "closed"
    BY <1>0, <1>7 DEF Ends, Goes, HandleType
  <2> QED BY <1>7, <2>1, EmptyType DEF Faithful, Opened
<1>8. ASSUME NEW k \in Keys, NEW r \in Stated, PutCrashes(h, k, r) PROVE Shown
  <2>1. OnDisk' = OnDisk /\ body' = [body EXCEPT ![k] = Torn]
    BY <1>8 DEF PutCrashes, OnDisk, Readable
  <2>2. Faithful(OnDisk)'
    BY <1>0, <2>1 DEF Faithful, DiskType
  <2> QED BY <1>7, <1>8, <2>1, <2>2 DEF PutCrashes
<1>9. CASE Stop(h)
  <2>1. OnDisk' = OnDisk /\ Faithful(OnDisk)'
    BY <1>0, <1>9 DEF Stop, OnDisk, Readable, Faithful
  <2> QED BY <1>7, <1>9, <2>1 DEF Stop
<1>10. CASE Rename(h)
  <2>1. OnDisk' = Merged(h) /\ UNCHANGED <<body, mem, removed>>
    BY <1>1, <1>10 DEF Rename
  <2>2. pc[h] = "written" /\ pc'[h] = "ready"
    BY <1>0, <1>10 DEF Rename, Goes, HandleType
  <2>3. Follows(h)
    BY <1>0, <2>2 DEF Opened
  <2>4. \A k \in DOMAIN OnDisk' \intersect Baselines :
           OnDisk'[k] # Unknown => k \in DOMAIN mem[h] /\ OnDisk'[k] = mem[h][k]
    <3>1. /\ DOMAIN Merged(h) = DOMAIN mem[h] \union (DOMAIN OnDisk \ removed[h])
          /\ \A k \in DOMAIN mem[h] : Merged(h)[k] = mem[h][k]
          /\ \A k \in DOMAIN OnDisk \ (removed[h] \union DOMAIN mem[h]) :
                Merged(h)[k] = OnDisk[k]
      BY <1>0, MergedType
    <3> QED BY <2>1, <2>3, <3>1 DEF Follows
  <2>5. Faithful(OnDisk)' /\ Faithful(mem[h])'
    BY <1>0, <2>1, <2>4 DEF Faithful
  <2>6. Follows(h)'
    BY <2>1, <2>4 DEF Follows
  <2> QED BY <2>2, <2>5, <2>6 DEF Opened
<1>11. ASSUME Deletes(h), OnDisk' \in {OnDisk, Empty}, \A k \in Keys : body'[k] \in {body[k], None}
       PROVE  Shown
  <2>1. UNCHANGED <<mem, removed>> /\ pc'[h] = "flushing" /\ pc[h] \in {"opened", "flushing"}
    BY <1>0, <1>11 DEF Deletes, Goes, HandleType
  <2>2. Follows(h)
    BY <1>0, <2>1 DEF Opened
  <2>3. DOMAIN mem[h] \subseteq Keys /\ DOMAIN OnDisk \subseteq Keys
    BY <1>2 DEF Manifests
  <2>4. Faithful(OnDisk)' /\ Faithful(mem[h])'
    BY <1>0, <1>11, <2>1, <2>3, EmptyType DEF Faithful
  <2>5. Follows(h)'
    BY <1>11, <2>1, <2>2, EmptyType DEF Follows
  <2> QED BY <2>1, <2>4, <2>5 DEF Opened
<1>12. CASE FlushIndex(h) \/ FlushTmp(h)
  BY <1>1, <1>11, <1>12 DEF FlushIndex, FlushTmp, Deletes, Rename
<1>13. ASSUME NEW k \in Keys, FlushBody(h, k) PROVE Shown
  <2>1. \A j \in Keys : body'[j] \in {body[j], None}
    BY <1>0, <1>13 DEF FlushBody, DiskType
  <2> QED BY <1>11, <1>13, <2>1 DEF FlushBody, OnDisk, Readable
<1>14. CASE RenameFails(h)
  BY <1>0, <1>14 DEF RenameFails
<1>15. CASE write_index(h) \/ Merge(h) \/ Truncate(h) \/ WriteTmp(h)
  <2>1. UNCHANGED <<body, mem, removed>> /\ Opened(h) /\ pc'[h] # "closed"
    BY <1>0, <1>15 DEF write_index, Ready, Merge, Truncate, WriteTmp, Goes, Opened, HandleType
  <2>2. OnDisk' = OnDisk
    BY <1>0, <1>1, <1>15 DEF write_index, Ready, Merge, Truncate, WriteTmp, Rename,
       FlushIndex, Deletes, Goes, HandleType
  <2>3. Ready(h) \/ pc[h] \in {"indexing", "merged", "truncated", "written"}
    BY <1>15 DEF write_index, Merge, Truncate, WriteTmp
  <2>4. pc'[h] \in {"indexing", "merged", "truncated", "written"}
    BY <1>0, <1>15 DEF write_index, Merge, Truncate, WriteTmp, Goes, HandleType
  <2>5. Faithful(OnDisk)' /\ Faithful(mem[h])' /\ Follows(h)'
    BY <1>0, <2>1, <2>2, <2>3, <2>4 DEF Faithful, Follows
  <2>6. pc'[h] \in {"truncated", "written"} => tmp' # None
    <3>1. CASE Truncate(h)
      BY <1>0, <3>1, TmpFileType DEF Truncate, StoreInv, TypeInv
    <3>2. CASE ~Truncate(h)
      BY <1>0, <1>15, <3>2 DEF write_index, Merge, WriteTmp, Goes, HandleType
    <3> QED BY <3>1, <3>2
  <2> QED BY <2>1, <2>5, <2>6 DEF Opened
<1> HIDE DEF Shown
<1> QED BY <1>3, <1>4, <1>5, <1>6, <1>8, <1>9, <1>10, <1>12, <1>13, <1>14, <1>15
        DEF HandleStep

\* With one run after another, a pinned page is never compared with the HTML of
\* another revision, wherever a run dies (would_orphan_baseline).
THEOREM PinnedAlwaysItself == Spec => []PinnedIsItself
<1>1. Init => PinInv
  BY EmptyType DEF Init, PinInv, AloneInv, Faithful, Opened, OnDisk, Readable
<1>2. StoreInv /\ PinInv /\ [Next]_vars => PinInv'
  <2> SUFFICES ASSUME StoreInv, PinInv, [Next]_vars PROVE PinInv'
    OBVIOUS
  <2>1. CASE UNCHANGED vars
    BY <2>1 DEF vars, handles, disk, ghosts, PinInv, AloneInv, Faithful, Follows, Opened, OnDisk, Readable
  <2>2. CASE Next
    <3>1. PICK h \in Handles : HandleStep(h) /\ UNCHANGED regime
      BY <2>2, NextIsHandleStep
    <3> QED BY <3>1, AloneStep DEF PinInv
  <2> QED BY <2>1, <2>2
<1>3. PinInv => PinnedIsItself
  BY PinnedIsFaithful DEF PinInv, AloneInv
<1> QED BY <1>1, <1>2, <1>3, WriterInit, WriterStep, PTL DEF Spec
=============================================================================
