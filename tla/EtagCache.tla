------------------------------ MODULE EtagCache ------------------------------
(***************************************************************************)
(* EtagCache (src/src/common/etagcache.cpp): the ETag an application last  *)
(* saw of each item of one collection (mCache) and the items it was told   *)
(* have changed on the server (mChangedRemoteIds).  The cache is shared:   *)
(* the resource that owns it updates it whenever an item is stored or      *)
(* removed, a running DavItemsListJob reads it.                            *)
(***************************************************************************)
CONSTANTS
    Ids,                \* remote ids: the item URLs
    Etags,              \* ETag values
    NoEntry             \* not an ETag: mCache has no entry

ASSUME EtagCacheAssumption == NoEntry \notin Etags

VARIABLES
    mCache,             \* [Ids -> Etags \cup {NoEntry}]
    mChangedRemoteIds   \* SUBSET Ids; may hold ids that are not in mCache

cacheVars == <<mCache, mChangedRemoteIds>>

CacheTypeOK ==
    /\ mCache \in [Ids -> Etags \cup {NoEntry}]
    /\ mChangedRemoteIds \subseteq Ids

Contains(id) == mCache[id] # NoEntry

Urls == {id \in Ids : Contains(id)}

\* Faulty variant: an item the cache does not know has not changed.
EtagChangedIfKnown(id, refEtag) == Contains(id) /\ mCache[id] # refEtag

EtagChanged(id, refEtag) == ~Contains(id) \/ mCache[id] # refEtag

IsOutOfDate(id) == id \in mChangedRemoteIds

SetEtag(id, etag) ==
    /\ mCache' = [mCache EXCEPT ![id] = etag]
    /\ mChangedRemoteIds' = mChangedRemoteIds \ {id}

\* Protected: subclasses fill the cache with it; it leaves the marks alone.
SetEtagInternal(id, etag) ==
    /\ mCache' = [mCache EXCEPT ![id] = etag]
    /\ UNCHANGED mChangedRemoteIds

RemoveEtag(id) ==
    /\ mCache' = [mCache EXCEPT ![id] = NoEntry]
    /\ mChangedRemoteIds' = mChangedRemoteIds \ {id}

MarkAsChanged(id) ==
    /\ mChangedRemoteIds' = mChangedRemoteIds \cup {id}
    /\ UNCHANGED mCache

=============================================================================
