---------------------------- MODULE ItemsListJob ----------------------------
(***************************************************************************)
(* DavItemsListJob (src/src/common/davitemslistjob.cpp) listing one        *)
(* collection while the server's items and the shared EtagCache change     *)
(* under it.                                                               *)
(*                                                                         *)
(* start() sends one request per itemsQueries() entry the caller wants     *)
(* (three REPORTs for CalDAV, one PROPFIND for CardDAV and GroupDAV).  The *)
(* server answers each from its state at that moment; answers are handled  *)
(* in any order, later, each by one call of davJobFinished().              *)
(*                                                                         *)
(* A multistatus answer is the function of what its readable responses     *)
(* say: the ETag of an item, or NotListed.  A response without a 200       *)
(* propstat and one that describes a collection are skipped by the code    *)
(* and so are NotListed; a body that is no multistatus at all is not       *)
(* noticed by the code and lists nothing.                                  *)
(***************************************************************************)
EXTENDS EtagCache, DavJobBase, FiniteSets

CONSTANTS
    Queries,            \* mime types of the protocol's itemsQueries()
    OtherType,          \* a mime type the protocol has no query for
    TypeOf,             \* [Ids -> Queries]: the query whose filter matches
    InRange,            \* SUBSET Ids: inside the time range, when one is set
    Absent,             \* not an ETag: the server has no such item
    NotListed,          \* not an ETag: an answer says nothing of the item
    FailCodes,          \* HTTP statuses of answers that fail
    MaxChanges          \* bound on server and cache changes during the job

ASSUME ItemsListJobAssumption ==
    /\ TypeOf \in [Ids -> Queries]
    /\ IsFiniteSet(Queries)
    /\ InRange \subseteq Ids
    /\ OtherType \notin Queries
    /\ Absent \notin Etags /\ NotListed \notin Etags
    /\ FailCodes \subseteq Nat
    /\ MaxChanges \in Nat

VARIABLES
    server,             \* [Ids -> Etags \cup {Absent}]
    mMimeTypes,         \* setContentMimeTypes(); {} asks for everything
    ranged,             \* whether setTimeRange() was called
    started,
    inFlight,           \* [Queries -> Idle, Sent or the answer on its way]
    mSubJobCount,
    error, latestResponseCode,
    mItems, mSeenUrls, mChangedItems, mDeletedItems,
    results,            \* how often result() was emitted
    \* History, read by properties only:
    changes,            \* how many of the MaxChanges happened
    touched,            \* ids whose server item or cache entry changed, or
                        \* that an answer left out, since start()
    missing,            \* ids that some answer left out, or that were not on
                        \* the server at some moment since start()
    failed              \* queries whose request failed

jobVars == <<mSubJobCount, error, latestResponseCode, mItems, mSeenUrls,
             mChangedItems, mDeletedItems, results>>
callerVars == <<mMimeTypes, ranged, started>>
historyVars == <<changes, touched, missing, failed>>
vars == <<cacheVars, server, callerVars, inFlight, jobVars, historyVars>>

Idle == [state |-> "idle"]
Sent == [state |-> "sent"]
Answer(netError, status, listed) ==
    [state |-> "answered", netError |-> netError, status |-> status,
     listed |-> listed]

Listing == [Ids -> Etags \cup {NotListed}]
Answers == [state : {"answered"}, netError : BOOLEAN, status : Nat,
            listed : Listing]
Nothing == [id \in Ids |-> NotListed]

\* A DavItem as the list knows it: no data yet.
Item == [id : Ids, etag : Etags, contentType : Queries]

TypeOK ==
    /\ CacheTypeOK
    /\ server \in [Ids -> Etags \cup {Absent}]
    /\ mMimeTypes \subseteq Queries \cup {OtherType}
    /\ ranged \in BOOLEAN /\ started \in BOOLEAN
    /\ inFlight \in [Queries -> {Idle, Sent} \cup Answers]
    /\ mSubJobCount \in Nat
    /\ error \in ErrorNumber /\ latestResponseCode \in Nat
    /\ mItems \subseteq Item
    /\ mSeenUrls \subseteq Ids
    /\ mChangedItems \subseteq mItems
    /\ mDeletedItems \subseteq Ids
    /\ results \in Nat /\ changes \in Nat
    /\ touched \subseteq Ids /\ missing \subseteq Ids
    /\ failed \subseteq Queries

Init ==
    /\ mCache \in [Ids -> Etags \cup {NoEntry}]
    /\ mChangedRemoteIds = {}
    /\ server \in [Ids -> Etags \cup {Absent}]
    /\ mMimeTypes \in SUBSET (Queries \cup {OtherType})
    /\ ranged \in BOOLEAN
    /\ started = FALSE
    /\ inFlight = [q \in Queries |-> Idle]
    /\ mSubJobCount = 0
    /\ error = NO_ERR /\ latestResponseCode = 0
    /\ mItems = {} /\ mSeenUrls = {} /\ mChangedItems = {}
    /\ mDeletedItems = {}
    /\ results = 0 /\ changes = 0
    /\ touched = {} /\ missing = {} /\ failed = {}

-----------------------------------------------------------------------------
(* The job                                                                 *)

Present == {id \in Ids : server[id] # Absent}

\* The queries whose mime type the caller wants.
Wanted == IF mMimeTypes = {} THEN Queries ELSE Queries \cap mMimeTypes

\* What the caller asked to be listed.
Requested ==
    {id \in Ids : TypeOf[id] \in Wanted /\ (ranged => id \in InRange)}

\* Faulty variant of Start: a query that is filtered out is counted too.
StartCountsAll ==
    /\ ~started
    /\ started' = TRUE
    /\ inFlight' = [q \in Queries |-> IF q \in Wanted THEN Sent ELSE Idle]
    /\ mSubJobCount' = mSubJobCount + Cardinality(Queries)
    /\ missing' = Ids \ Present
    /\ UNCHANGED <<cacheVars, server, mMimeTypes, ranged, error,
                   latestResponseCode, mItems, mSeenUrls, mChangedItems,
                   mDeletedItems, results, changes, touched, failed>>

\* DavItemsListJob::start()
Start ==
    /\ ~started
    /\ started' = TRUE
    /\ inFlight' = [q \in Queries |-> IF q \in Wanted THEN Sent ELSE Idle]
    /\ mSubJobCount' = mSubJobCount + Cardinality(Wanted)
    /\ IF Wanted = {}
       THEN error' = "ERR_ITEMLIST_NOMIMETYPE" /\ results' = results + 1
       ELSE UNCHANGED <<error, results>>
    /\ missing' = Ids \ Present
    /\ UNCHANGED <<cacheVars, server, mMimeTypes, ranged, latestResponseCode,
                   mItems, mSeenUrls, mChangedItems, mDeletedItems,
                   changes, touched, failed>>

\* Faulty variant: without mSeenUrls.
AllItems(q, listed) ==
    {[id |-> id, etag |-> listed[id], contentType |-> q] :
        id \in {i \in Ids : listed[i] # NotListed}}

\* The items of an answer that no earlier answer held: the code skips a URL
\* already in mSeenUrls, whatever ETag comes with it.
NewItems(q, listed) ==
    {[id |-> id, etag |-> listed[id], contentType |-> q] :
        id \in {i \in Ids : listed[i] # NotListed /\ i \notin mSeenUrls}}

\* Faulty variant: a success clears the error of an earlier answer.
TakeListingClearsError(q, listed) ==
    LET new == NewItems(q, listed)
    IN  /\ mItems' = mItems \cup new
        /\ mSeenUrls' = mSeenUrls \cup {item.id : item \in new}
        /\ mChangedItems' = mChangedItems
               \cup {item \in new : EtagChanged(item.id, item.etag)}
        /\ error' = NO_ERR
        /\ UNCHANGED <<latestResponseCode, failed>>

\* Faulty variant: the ETag is compared before duplicates are dropped.
TakeListingComparesFirst(q, listed) ==
    LET new == NewItems(q, listed)
    IN  /\ mItems' = mItems \cup new
        /\ mSeenUrls' = mSeenUrls \cup {item.id : item \in new}
        /\ mChangedItems' = mChangedItems
               \cup {item \in AllItems(q, listed) : EtagChanged(item.id, item.etag)}
        /\ UNCHANGED <<error, latestResponseCode, failed>>

\* The multistatus branch of davJobFinished().
TakeListing(q, listed) ==
    LET new == NewItems(q, listed)
    IN  /\ mItems' = mItems \cup new
        /\ mSeenUrls' = mSeenUrls \cup {item.id : item \in new}
        /\ mChangedItems' = mChangedItems
               \cup {item \in new : EtagChanged(item.id, item.etag)}
        /\ UNCHANGED <<error, latestResponseCode, failed>>

\* Its error branch: the job goes on, the last error is the one reported.
TakeFailure(q, status) ==
    /\ error' = "ERR_PROBLEM_WITH_REQUEST"
    /\ latestResponseCode' = status
    /\ failed' = failed \cup {q}
    /\ UNCHANGED <<mItems, mSeenUrls, mChangedItems>>

\* Faulty variant: computed before the answer is taken.
NotSeenBefore == {id \in Urls : id \notin mSeenUrls}

\* Recomputed from scratch after every answer, failed ones included.
NotSeen == {id \in Urls : id \notin mSeenUrls'}

\* Faulty variant of SubJobDone: the counter is read before it is decremented.
SubJobDoneLate ==
    /\ mSubJobCount' = mSubJobCount - 1
    /\ results' = IF mSubJobCount = 0 THEN results + 1 ELSE results

\* The end of davJobFinished(), reached from both branches.
SubJobDone ==
    /\ mSubJobCount' = mSubJobCount - 1
    /\ results' = IF mSubJobCount' = 0 THEN results + 1 ELSE results

\* DavItemsListJobPrivate::davJobFinished(reply)
DavJobFinished(q) ==
    LET reply == inFlight[q]
    IN  /\ reply \in Answers
        /\ IF RequestFailed(reply.netError, reply.status)
           THEN TakeFailure(q, reply.status)
           ELSE TakeListing(q, reply.listed)
        /\ mDeletedItems' = NotSeen
        /\ SubJobDone
        /\ inFlight' = [inFlight EXCEPT ![q] = Idle]
        /\ UNCHANGED <<cacheVars, server, callerVars, changes, touched,
                       missing>>

-----------------------------------------------------------------------------
(* The server, other clients and the owner of the cache                    *)

\* The ids a query's own filter matches.
Matching(q) == {id \in Requested : TypeOf[id] = q}

\* The server answers from its present state.  It should list exactly the
\* matching items; servers that ignore the filter list others too (hence
\* mSeenUrls), and an unreadable answer leaves items out.
ServerLists(q) ==
    /\ inFlight[q] = Sent
    /\ \E shown \in SUBSET Present :
        /\ inFlight' = [inFlight EXCEPT ![q] =
               Answer(FALSE, 207,
                      [id \in Ids |-> IF id \in shown THEN server[id]
                                                      ELSE NotListed])]
        /\ touched' = touched \cup ((Matching(q) \cap Present) \ shown)
        /\ missing' = missing \cup (Matching(q) \ shown)
    /\ UNCHANGED <<cacheVars, server, callerVars, jobVars, changes, failed>>

\* The request fails: refused, lost, or cut off while the answer arrives.
ServerFails(q) ==
    /\ inFlight[q] = Sent
    /\ \E status \in FailCodes :
        inFlight' = [inFlight EXCEPT ![q] = Answer(TRUE, status, Nothing)]
    /\ UNCHANGED <<cacheVars, server, callerVars, jobVars, historyVars>>

\* Another client stores, changes or removes an item.
OtherClient(id) ==
    /\ started /\ results = 0 /\ changes < MaxChanges
    /\ \E etag \in (Etags \cup {Absent}) \ {server[id]} :
        /\ server' = [server EXCEPT ![id] = etag]
        /\ missing' = IF etag = Absent THEN missing \cup {id} ELSE missing
    /\ changes' = changes + 1
    /\ touched' = touched \cup {id}
    /\ UNCHANGED <<cacheVars, callerVars, inFlight, jobVars, failed>>

\* The owner of the cache stores the outcome of another job, or is told that
\* an item has changed.
CacheOwner(id) ==
    /\ started /\ results = 0 /\ changes < MaxChanges
    /\ \/ /\ \/ \E etag \in Etags : SetEtag(id, etag) \/ SetEtagInternal(id, etag)
             \/ RemoveEtag(id)
          /\ touched' = touched \cup {id}
       \/ MarkAsChanged(id) /\ UNCHANGED touched
    /\ changes' = changes + 1
    /\ UNCHANGED <<server, callerVars, inFlight, jobVars, missing, failed>>

\* After result() the job changes nothing any more.
Finished == results > 0 /\ UNCHANGED vars

Next ==
    \/ Start
    \/ \E q \in Queries : ServerLists(q) \/ ServerFails(q) \/ DavJobFinished(q)
    \/ \E id \in Ids : OtherClient(id) \/ CacheOwner(id)
    \/ Finished

Spec == Init /\ [][Next]_vars

-----------------------------------------------------------------------------
(* Properties                                                              *)

Pending == {q \in Queries : inFlight[q] # Idle}

Done == results > 0

SeenItems == {item.id : item \in mItems}
ChangedIds == {item.id : item \in mChangedItems}

\* A job that ends without an error has classified every requested item that
\* nobody touched while it ran exactly: changed when the server's ETag is not
\* the cached one, deleted when it is cached and not on the server.
ClassificationExact ==
    Done /\ error = NO_ERR =>
        \A id \in Requested \ touched :
            /\ id \in ChangedIds <=> /\ server[id] # Absent
                                     /\ mCache[id] # server[id]
            /\ id \in mDeletedItems <=> /\ server[id] = Absent
                                        /\ mCache[id] # NoEntry

\* Even for items that come and go while the job runs, an item it asked for
\* is reported as deleted only if it was off the server, or left out of an
\* answer, at some moment since start().
DeletedWasMissing ==
    Done /\ error = NO_ERR => mDeletedItems \cap Requested \subseteq missing

\* No result calls one item both listed and deleted, or lists it twice: the
\* caller would remove what it was just told to store, or store two versions.
ListedOnceAndNotDeleted ==
    /\ mDeletedItems \cap mSeenUrls = {}
    /\ SeenItems = mSeenUrls
    /\ \A a, b \in mItems : a.id = b.id => a = b

\* An error survives the answers that come after it: the job ends without
\* one exactly if something was asked and every request succeeded.  The
\* deleted items of a job that ends with one include all it could not list.
FailureReported ==
    Done => (error = NO_ERR <=> Wanted # {} /\ failed = {})

\* The counter the job ends by is the number of answers it still waits for.
CountsPending == mSubJobCount = Cardinality(Pending)

\* Whatever order the answers come in, result() is emitted exactly once, by
\* the handler of the last one.
RO == INSTANCE ResultOnce WITH Requests <- Queries, outstanding <- Pending
DeliversOneResult == RO!Spec

-----------------------------------------------------------------------------
(* Why the properties hold: an invariant that every step preserves.        *)

\* An answer to q is on its way that will be read.
Readable(q) ==
    /\ inFlight[q] \in Answers
    /\ ~RequestFailed(inFlight[q].netError, inFlight[q].status)

Handled(q) == started /\ q \in Wanted /\ inFlight[q] = Idle

CountInv ==
    /\ CountsPending
    /\ Pending # {} => started
    /\ Pending \subseteq Wanted
    /\ results = IF started /\ Pending = {} THEN 1 ELSE 0

FailInv ==
    /\ failed \subseteq {q \in Queries : Handled(q)}
    /\ error = NO_ERR <=> failed = {} /\ ~(started /\ Wanted = {})

\* An item that was never missing was in every answer to its query.
MissingInv ==
    started => \A id \in Requested \ missing :
        /\ server[id] # Absent
        /\ Readable(TypeOf[id]) => inFlight[TypeOf[id]].listed[id] # NotListed
        /\ Handled(TypeOf[id]) => TypeOf[id] \in failed \/ id \in mSeenUrls

\* What answers and the job say of an item that nobody touched is still so.
UntouchedInv ==
    \A id \in Requested \ touched :
        /\ \A q \in Queries : Readable(q) =>
               inFlight[q].listed[id] \in {NotListed, server[id]}
        /\ server[id] # Absent =>
               /\ Readable(TypeOf[id]) =>
                      inFlight[TypeOf[id]].listed[id] = server[id]
               /\ Handled(TypeOf[id]) =>
                      TypeOf[id] \in failed \/ id \in mSeenUrls
        /\ \A item \in mItems : item.id = id =>
               /\ item.etag = server[id]
               /\ item \in mChangedItems <=> mCache[id] # server[id]
        /\ (\E q \in Queries : Handled(q)) =>
               (id \in mDeletedItems <=> Contains(id) /\ id \notin mSeenUrls)

\* All of it together is inductive, and implies every invariant above: the
\* job's memory (mSeenUrls, mItems, mDeletedItems, failed), the answers on
\* their way and the server agree on every item that nobody touched.
IInv ==
    /\ TypeOK
    /\ CountInv
    /\ FailInv
    /\ ListedOnceAndNotDeleted
    /\ MissingInv
    /\ UntouchedInv

=============================================================================
