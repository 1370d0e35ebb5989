---------------------------- MODULE ManifestStore ----------------------------
(***************************************************************************)
(* What the manifest of a cache promises (rustoid-compare/src/cache.rs),   *)
(* without the files it is kept in: a handle has a view of the entries, a  *)
(* write of the manifest is one step, and it writes what the handle has    *)
(* put, recovered or deleted since it last wrote: all other entries stay   *)
(* as they are.  WikiCache implements this with a merge, a temporary file  *)
(* and a rename, for handles that do not change the same keys.             *)
(***************************************************************************)
EXTENDS Functions

CONSTANTS
    Handles,        \* the handles that may be open on the cache
    Inputs,         \* keys whose entries may be replaced
    Baselines,      \* keys whose entries are pinned to their revision
    Revs,           \* revisions
    Unknown         \* the revision an entry made from a body has

Entries == Inputs \union Baselines

VARIABLES
    stage,          \* handle -> "closed", "open" or "flushing"
    entries,        \* the manifest, a function from keys to revisions
    view,           \* handle -> the entries it knows of
    changed         \* handle -> the keys it has changed since it last committed

storeVars == <<stage, entries, view, changed>>

Nothing == [k \in {} |-> Unknown]

\* The entries of m, and those of n that m has not.
Over(m, n) == [k \in DOMAIN m \union DOMAIN n |-> IF k \in DOMAIN m THEN m[k] ELSE n[k]]

StoreInit ==
    /\ stage = [h \in Handles |-> "closed"]
    /\ entries = Nothing
    /\ view = [h \in Handles |-> Nothing]
    /\ changed = [h \in Handles |-> {}]

\* A handle starts from what is stored.
Open(h) ==
    /\ stage[h] = "closed"
    /\ stage' = [stage EXCEPT ![h] = "open"]
    /\ view' = [view EXCEPT ![h] = entries]
    /\ UNCHANGED <<entries, changed>>

\* An entry is the handle's own until it commits; a pinned one is kept.
Pinned(h, k, r) == k \in Baselines /\ k \in DOMAIN view[h] /\ view[h][k] \notin {Unknown, r}

Put(h, k, r) ==
    /\ stage[h] = "open"
    /\ ~Pinned(h, k, r)
    /\ view' = [view EXCEPT ![h] = Over([j \in {k} |-> r], @)]
    /\ changed' = [changed EXCEPT ![h] = @ \union {k}]
    /\ UNCHANGED <<stage, entries>>

Delete(h, k) ==
    /\ stage[h] = "open"
    /\ view' = [view EXCEPT ![h] = Restrict(@, DOMAIN @ \ {k})]
    /\ changed' = [changed EXCEPT ![h] = @ \union {k}]
    /\ UNCHANGED <<stage, entries>>

\* Entries of unknown revisions for bodies that have none.
Recover(h, found) ==
    /\ stage[h] = "open"
    /\ view' = [view EXCEPT ![h] = Over(@, [k \in found |-> Unknown])]
    /\ changed' = [changed EXCEPT ![h] = @ \union (found \ DOMAIN view[h])]
    /\ UNCHANGED <<stage, entries>>

\* What the handle has changed is written, and nothing else.
Commit(h) ==
    /\ stage[h] = "open"
    /\ entries' = Over(Restrict(view[h], DOMAIN view[h] \intersect changed[h]),
                       Restrict(entries, DOMAIN entries \ changed[h]))
    /\ changed' = [changed EXCEPT ![h] = {}]
    /\ UNCHANGED <<stage, view>>

\* The directory is deleted, piece by piece; the manifest is one piece.
Flush(h) ==
    /\ stage[h] \in {"open", "flushing"}
    /\ stage' = [stage EXCEPT ![h] = "flushing"]
    /\ entries' \in {entries, Nothing}
    /\ UNCHANGED <<view, changed>>

\* A handle is closed, or its process dies: what it did not commit is gone.
Close(h) ==
    /\ stage[h] # "closed"
    /\ stage' = [stage EXCEPT ![h] = "closed"]
    /\ view' = [view EXCEPT ![h] = Nothing]
    /\ changed' = [changed EXCEPT ![h] = {}]
    /\ UNCHANGED entries

StoreNext ==
    \E h \in Handles :
       \/ Open(h) \/ Commit(h) \/ Flush(h) \/ Close(h)
       \/ \E k \in Entries : Delete(h, k)
       \/ \E k \in Entries, r \in Revs \union {Unknown} : Put(h, k, r)
       \/ \E found \in SUBSET Entries : Recover(h, found)

StoreSpec == StoreInit /\ [][StoreNext]_storeVars
=============================================================================
