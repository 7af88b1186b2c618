------------------------- MODULE CollectionSync_proofs -------------------------
(***************************************************************************)
(* Proofs about CollectionSync, for any number of members, of changes by   *)
(* other clients and of faults: an application that syncs with the jobs    *)
(* never misses a change.                                                  *)
(***************************************************************************)
EXTENDS CollectionSync, FiniteSetTheorems, TLAPS

(***************************************************************************)
(* The inductive invariant.  Between the answer of the server and the step *)
(* that takes it over other clients go on: what the answer says is stated  *)
(* of the members that did not change since the token that came with it.   *)
(***************************************************************************)

Phases == {"idle", "sync", "synced", "fetch", "fetched"}

Times ==
    /\ clock \in Nat \ {0}
    /\ server \in [Ids -> Nat]
    /\ changedAt \in [Ids -> Nat \ {0}]
    /\ \A id \in Ids : changedAt[id] <= clock
    /\ token \in Nat /\ token <= clock
    /\ mNewSyncToken \in Nat /\ mNewSyncToken <= clock
    /\ phase \in Phases
    /\ phase # "idle" => mSyncToken = token

\* What the application holds is right up to its token.
Kept ==
    /\ \A id \in Ids : changedAt[id] <= token => mirror[id] = Wanted(id)
    /\ \A id \in Ids \cap Subcollections : mirror[id] = None

\* changed and deleted are about every member that was due at the time of the
\* new token, and right for those that did not change since.
Reported(changed, deleted, newToken) ==
    /\ \A item \in changed : item.id \in Ids \ Subcollections
    /\ \A id \in Ids : changedAt[id] <= newToken =>
          /\ \A item \in changed :
                item.id = id => item.etag = server[id] /\ server[id] # None
          /\ id \in deleted => server[id] = None
          /\ mSyncToken = None \/ changedAt[id] > mSyncToken =>
                /\ server[id] = None => mSyncToken = None \/ id \in deleted
                /\ server[id] # None /\ id \notin Subcollections =>
                      \E item \in changed : item.id = id

\* An answer to the sync job that will be taken over if all goes well.
Readable ==
    /\ reply.multistatus /\ reply.token # None
    /\ \A r \in reply.responses : ~IsUnreadable(r)

Asked ==
    phase = "sync" =>
        /\ mNewSyncToken = None /\ error = NO_ERR
        /\ Answered =>
              /\ reply.token \in Nat /\ reply.token <= clock
              /\ Readable =>
                    /\ reply.responses = owed
                    /\ Reported(ChangedItems(owed), DeletedItems(owed), reply.token)

Found ==
    /\ phase = "synced" /\ mNewSyncToken # None =>
          /\ error = NO_ERR
          /\ mChangedItems = ChangedItems(owed) /\ mDeletedItems = DeletedItems(owed)
    /\ (phase = "synced" /\ mNewSyncToken # None) \/ phase \in {"fetch", "fetched"} =>
          Reported(mChangedItems, mDeletedItems, mNewSyncToken)

\* The items to fetch are those the copy does not have.
Chosen ==
    phase \in {"fetch", "fetched"} =>
        /\ mUrls \subseteq {item.id : item \in mChangedItems}
        /\ \A item \in mChangedItems :
              item.id \in mUrls \/ item.etag = mirror[item.id]

\* Data is the server's, unless the item changed since.
Current(id, data) ==
    id \in Ids /\ (changedAt[id] <= mNewSyncToken => data = server[id])

Sends ==
    /\ phase = "fetch" => mItems = {}
    /\ phase = "fetch" /\ Answered =>
          \A r \in reply.responses : r.data # None => Current(r.id, r.data)
    /\ phase = "fetched" => \A item \in mItems : Current(item.id, item.data)

IInv == Times /\ Kept /\ Asked /\ Found /\ Chosen /\ Sends

(***************************************************************************)
(* Facts about the data.                                                   *)
(***************************************************************************)

LEMMA Replies ==
    /\ NoReply.state = "none" /\ Sent.state = "sent"
    /\ NoMultistatus.state = "answered" /\ NoMultistatus.multistatus = FALSE
    /\ NoMultistatus.responses = {} /\ NoMultistatus.token = None
    /\ \A status : /\ Failure(status).state = "answered"
                   /\ Failure(status).multistatus = FALSE
                   /\ Failure(status).responses = {}
                   /\ Failure(status).token = None
BY DEF NoReply, Sent, Multistatus, NoMultistatus, Failure

\* What the server says of a member tells what it is.
LEMMA ServerSays ==
    ASSUME Times, NEW id \in Ids, NEW r \in Says(id)
    PROVE  /\ r.id = id /\ ~IsUnreadable(r)
           /\ IsDeleted(r) <=> server[id] = None
           /\ IsChangedItem(r) <=> server[id] # None /\ id \notin Subcollections
           /\ IsChangedItem(r) => r.etag = server[id]
<1>1. CASE server[id] = None
  BY <1>1 DEF Says, Response, IsUnreadable, IsDeleted, IsUnsupported, IsChangedItem
<1>2. CASE server[id] # None /\ id \in Subcollections
  BY <1>2 DEF Says, Response, IsUnreadable, IsDeleted, IsUnsupported, IsChangedItem
<1>3. CASE server[id] # None /\ id \notin Subcollections
  BY <1>3 DEF Says, Response, IsUnreadable, IsDeleted, IsUnsupported, IsChangedItem
<1> QED BY <1>1, <1>2, <1>3

\* A whole answer reports everything that was due.
LEMMA WholeAnswer ==
    ASSUME Times,
           NEW responses \in SUBSET UNION {Says(id) : id \in Due},
           \A id \in Due : Cardinality({r \in responses : r.id = id}) = 1
    PROVE  Reported(ChangedItems(responses), DeletedItems(responses), clock)
<1> DEFINE changed == ChangedItems(responses)
           deleted == DeletedItems(responses)
<1>1. Due \subseteq Ids
  BY DEF Due
<1>2. ASSUME NEW r \in responses
      PROVE  /\ r.id \in Due /\ r \in Says(r.id)
             /\ IsDeleted(r) <=> server[r.id] = None
             /\ IsChangedItem(r) <=>
                    server[r.id] # None /\ r.id \notin Subcollections
             /\ IsChangedItem(r) => r.etag = server[r.id]
  <2>1. PICK id \in Due : r \in Says(id)
    OBVIOUS
  <2>2. id \in Ids
    BY <1>1
  <2>3. r.id = id
    BY <2>1, <2>2, ServerSays
  <2> QED BY <2>1, <2>2, <2>3, ServerSays
<1>3. ASSUME NEW id \in Due
      PROVE  \E r \in responses : r.id = id
  <2>1. Cardinality({r \in responses : r.id = id}) # Cardinality({})
    BY FS_EmptySet
  <2> QED BY <2>1
<1>4. ASSUME NEW item \in changed
      PROVE  \E r \in responses : IsChangedItem(r) /\ item.id = r.id /\ item.etag = r.etag
  BY DEF ChangedItems
<1>5. ASSUME NEW r \in responses, IsChangedItem(r)
      PROVE  \E item \in changed : item.id = r.id
  <2> DEFINE item == [id |-> r.id, etag |-> r.etag]
  <2>1. item \in changed /\ item.id = r.id
    BY <1>5 DEF ChangedItems
  <2> QED BY <2>1
<1>6. \A id : id \in deleted <=> \E r \in responses : IsDeleted(r) /\ r.id = id
  BY DEF DeletedItems
<1> HIDE DEF changed, deleted
<1>7. \A item \in changed : item.id \in Ids \ Subcollections
  BY <1>1, <1>2, <1>4
<1>8. ASSUME NEW id \in Ids
      PROVE  /\ \A item \in changed :
                   item.id = id => item.etag = server[id] /\ server[id] # None
             /\ id \in deleted => server[id] = None
  BY <1>2, <1>4, <1>6
<1>9. ASSUME NEW id \in Ids, mSyncToken = None \/ changedAt[id] > mSyncToken
      PROVE  /\ server[id] = None => mSyncToken = None \/ id \in deleted
             /\ server[id] # None /\ id \notin Subcollections =>
                   \E item \in changed : item.id = id
  <2>1. server[id] = None => mSyncToken = None \/ id \in Due
    BY <1>9 DEF Due
  <2>2. server[id] # None => id \in Due
    BY <1>9 DEF Due
  <2> QED BY <1>2, <1>3, <1>5, <1>6, <2>1, <2>2
<1>10. Reported(changed, deleted, clock)
  BY <1>7, <1>8, <1>9 DEF Reported
<1> QED BY <1>10 DEF changed, deleted

(***************************************************************************)
(* The steps.                                                              *)
(***************************************************************************)

LEMMA StepSyncStart == ASSUME IInv, SyncStart PROVE IInv'
<1> USE DEF SyncStart, envVars, fetchVars
<1>1. phase' = "sync" /\ Answered' = FALSE
  BY Replies DEF Answered
<1>2. Times'
  BY DEF IInv, Times, None, Phases
<1>3. Kept'
  BY DEF IInv, Kept, Wanted
<1>4. Asked' /\ Found' /\ Chosen' /\ Sends'
  BY <1>1 DEF Asked, Found, Chosen, Sends
<1> QED BY <1>2, <1>3, <1>4 DEF IInv

LEMMA StepSyncFinished == ASSUME IInv, SyncFinished PROVE IInv'
<1> USE DEF SyncFinished, envVars, fetchVars, syncVars, errorVars
<1>1. /\ phase = "sync" /\ phase' = "synced" /\ Answered
      /\ mNewSyncToken = None /\ error = NO_ERR
      /\ reply.token \in Nat /\ reply.token <= clock
  BY DEF IInv, Asked
<1>2. /\ mSyncToken' = mSyncToken
      /\ \/ mNewSyncToken' = None
         \/ /\ mNewSyncToken' = reply.token /\ Readable /\ error' = error
            /\ mChangedItems' = ChangedItems(reply.responses)
            /\ mDeletedItems' = DeletedItems(reply.responses)
  <2>1. CASE reply.multistatus /\ SyncReads /\ UNCHANGED mSyncToken
    <3> DEFINE unreadable == {r \in reply.responses : IsUnreadable(r)}
    <3>1. CASE unreadable = {}
      BY <2>1, <3>1 DEF SyncReads, Readable
    <3>2. CASE unreadable # {}
      BY <1>1, <2>1, <3>2 DEF SyncReads
    <3> QED BY <3>1, <3>2
  <2>2. CASE UNCHANGED syncVars
    BY <1>1, <2>2
  <2> QED BY <2>1, <2>2
<1>3. mSyncToken' = mSyncToken
  OBVIOUS
<1>4. Times'
  BY <1>1, <1>2, <1>3 DEF IInv, Times, None, Phases
<1>5. Kept'
  BY DEF IInv, Kept, Wanted
<1>6. Found'
  <2> SUFFICES ASSUME mNewSyncToken' # None
               PROVE  Found'
    BY <1>1 DEF Found
  <2>1. /\ mNewSyncToken' = reply.token /\ reply.token # None /\ error' = NO_ERR
        /\ mChangedItems' = ChangedItems(owed) /\ mDeletedItems' = DeletedItems(owed)
        /\ owed' = owed
        /\ Reported(ChangedItems(owed), DeletedItems(owed), reply.token)
    BY <1>1, <1>2 DEF IInv, Asked, Readable
  <2>2. Reported(mChangedItems, mDeletedItems, mNewSyncToken)'
    BY <1>3, <2>1 DEF Reported
  <2> QED BY <1>1, <2>1, <2>2 DEF Found, ChangedItems, DeletedItems
<1>7. Asked' /\ Chosen' /\ Sends'
  BY <1>1 DEF Asked, Chosen, Sends
<1> QED BY <1>4, <1>5, <1>6, <1>7 DEF IInv

LEMMA StepGiveUpSync == ASSUME IInv, GiveUpSync PROVE IInv'
<1> USE DEF GiveUpSync, envVars, fetchVars, syncVars, errorVars
<1>1. phase' = "idle" /\ (token' = None \/ token' = token)
  OBVIOUS
<1>2. Times'
  BY <1>1 DEF IInv, Times, None, Phases
<1>3. Kept'
  BY <1>1 DEF IInv, Times, Kept, Wanted, None
<1>4. Asked' /\ Found' /\ Chosen' /\ Sends'
  BY <1>1 DEF Asked, Found, Chosen, Sends
<1> QED BY <1>2, <1>3, <1>4 DEF IInv

LEMMA StepFetchChanged == ASSUME IInv, FetchChanged PROVE IInv'
<1> USE DEF FetchChanged, envVars, syncVars
<1>1. /\ phase = "synced" /\ mNewSyncToken # None
      /\ phase' \in {"fetch", "fetched"} /\ mItems' = {} /\ mUrls' = Stale
      /\ phase' = "fetch" => Answered' = FALSE
  BY Replies DEF FetchStart, Answered
<1>2. Times'
  BY <1>1 DEF IInv, Times, Phases
<1>3. Kept'
  BY DEF IInv, Kept, Wanted
<1>4. Found'
  <2>1. Reported(mChangedItems, mDeletedItems, mNewSyncToken)
    BY <1>1 DEF IInv, Found
  <2> QED BY <1>1, <2>1 DEF Found, Reported
<1>5. Chosen'
  <2>1. \A item \in mChangedItems : item.id \in Ids
    BY <1>1 DEF IInv, Found, Reported
  <2> QED BY <1>1, <2>1 DEF Chosen, Stale
<1>6. Asked' /\ Sends'
  BY <1>1 DEF Asked, Sends
<1> QED BY <1>2, <1>3, <1>4, <1>5, <1>6 DEF IInv

LEMMA StepFetchFinished == ASSUME IInv, FetchFinished PROVE IInv'
<1> USE DEF FetchFinished, envVars, syncVars, errorVars
<1>1. phase = "fetch" /\ phase' = "fetched" /\ Answered
  OBVIOUS
<1>2. Times'
  BY <1>1 DEF IInv, Times, Phases
<1>3. Kept'
  BY DEF IInv, Kept, Wanted
<1>4. Found' /\ Chosen' /\ Asked'
  <2>1. Found'
    BY <1>1 DEF IInv, Found, Reported
  <2>2. Chosen'
    BY <1>1 DEF IInv, Chosen
  <2>3. Asked'
    BY <1>1 DEF Asked
  <2> QED BY <2>1, <2>2, <2>3
<1>5. Sends'
  <2>1. \A r \in reply.responses : r.data # None => Current(r.id, r.data)
    BY <1>1 DEF IInv, Sends
  <2>2. \A item \in FetchedItems(reply.responses) : Current(item.id, item.data)
    BY <2>1 DEF FetchedItems
  <2>3. \A item \in mItems' : Current(item.id, item.data)
    <3>1. CASE mItems' = FetchedItems(reply.responses)
      BY <2>2, <3>1
    <3>2. CASE mItems' = mItems
      <4>1. mItems = {}
        BY <1>1 DEF IInv, Sends
      <4> QED BY <3>2, <4>1
    <3> QED BY <3>1, <3>2
  <2>4. \A q, data : Current(q, data)' <=> Current(q, data)
    BY DEF Current
  <2> QED BY <1>1, <2>3, <2>4 DEF Sends
<1> QED BY <1>2, <1>3, <1>4, <1>5 DEF IInv

\* The copy becomes right up to the new token.
LEMMA StepTakeOver == ASSUME IInv, TakeOver PROVE IInv'
<1> USE DEF TakeOver, envVars, syncVars, fetchVars, errorVars
<1>1. phase = "fetched" /\ phase' = "idle"
  OBVIOUS
<1>2. Times'
  BY <1>1 DEF IInv, Times, Phases
<1>3. Kept'
  <2>1. CASE UNCHANGED <<mirror, token>>
    BY <2>1 DEF IInv, Kept, Wanted
  <2>2. CASE /\ error = NO_ERR /\ mUrls \subseteq {item.id : item \in mItems}
             /\ mirror' = [id \in Ids |->
                    IF id \in Dropped THEN None
                    ELSE IF id \in mUrls
                    THEN (CHOOSE item \in mItems : item.id = id).data
                    ELSE mirror[id]]
             /\ token' = mNewSyncToken
    <3>1. Reported(mChangedItems, mDeletedItems, mNewSyncToken) /\ mSyncToken = token
      BY <1>1 DEF IInv, Found, Times
    <3>2. /\ mUrls \subseteq {item.id : item \in mChangedItems}
          /\ \A item \in mChangedItems :
                item.id \in mUrls \/ item.etag = mirror[item.id]
      BY <1>1 DEF IInv, Chosen
    <3>3. \A id \in mUrls : id \notin Subcollections
      BY <3>1, <3>2 DEF Reported
    <3>4. ASSUME NEW id \in mUrls, changedAt[id] <= mNewSyncToken
          PROVE  (CHOOSE item \in mItems : item.id = id).data = server[id]
      <4> DEFINE chosen == CHOOSE item \in mItems : item.id = id
      <4>1. chosen \in mItems /\ chosen.id = id
        BY <2>2
      <4>2. Current(chosen.id, chosen.data)
        BY <1>1, <4>1 DEF IInv, Sends
      <4> HIDE DEF chosen
      <4>3. chosen.data = server[id]
        BY <3>4, <4>1, <4>2 DEF Current
      <4> QED BY <4>3 DEF chosen
    <3>5. ASSUME NEW id \in Ids, changedAt[id] <= mNewSyncToken
          PROVE  mirror'[id] = Wanted(id)
      <4>1. CASE id \in Dropped
        <5>1. mirror'[id] = None
          BY <2>2, <4>1
        <5>2. server[id] = None \/ id \in Subcollections
          BY <3>1, <3>5, <4>1 DEF Dropped, Reported
        <5> QED BY <5>1, <5>2 DEF Wanted
      <4>2. CASE id \notin Dropped /\ id \in mUrls
        BY <2>2, <3>3, <3>4, <3>5, <4>2 DEF Wanted
      <4>3. CASE id \notin Dropped /\ id \notin mUrls
        <5>1. mirror'[id] = mirror[id]
          BY <2>2, <4>3
        <5>2. CASE id \in Subcollections
          BY <5>1, <5>2 DEF IInv, Kept, Wanted
        <5>3. CASE id \notin Subcollections /\ \E item \in mChangedItems : item.id = id
          <6>1. PICK item \in mChangedItems : item.id = id
            BY <5>3
          <6>2. item.etag = mirror[id]
            BY <3>2, <4>3, <6>1
          <6>3. item.etag = server[id]
            BY <3>1, <3>5, <6>1 DEF Reported
          <6> QED BY <5>1, <5>3, <6>2, <6>3 DEF Wanted
        <5>4. CASE id \notin Subcollections /\ \A item \in mChangedItems : item.id # id
          <6>1. mSyncToken # None
            BY <4>3, <5>4 DEF Dropped
          <6>2. ~(changedAt[id] > mSyncToken)
            BY <3>1, <3>5, <4>3, <5>4, <6>1 DEF Dropped, Reported
          <6>3. changedAt[id] <= token
            BY <3>1, <6>2 DEF IInv, Times
          <6> QED BY <5>1, <6>3 DEF IInv, Kept
        <5> QED BY <5>2, <5>3, <5>4
      <4> QED BY <4>1, <4>2, <4>3
    <3>6. ASSUME NEW id \in Ids \cap Subcollections
          PROVE  mirror'[id] = None
      BY <2>2, <3>3 DEF IInv, Kept
    <3>7. /\ token' = mNewSyncToken /\ changedAt' = changedAt
          /\ \A id : Wanted(id)' = Wanted(id)
      BY <2>2 DEF Wanted
    <3> QED BY <3>5, <3>6, <3>7 DEF Kept
  <2> QED BY <2>1, <2>2
<1>4. Asked' /\ Found' /\ Chosen' /\ Sends'
  BY <1>1 DEF Asked, Found, Chosen, Sends
<1> QED BY <1>2, <1>3, <1>4 DEF IInv

LEMMA StepServerSyncs == ASSUME IInv, ServerSyncs PROVE IInv'
<1>0. /\ phase = "sync"
      /\ UNCHANGED <<server, changedAt, clock, appVars, syncVars, fetchVars,
                     errorVars>>
  BY DEF ServerSyncs
<1> USE DEF appVars, syncVars, fetchVars, errorVars
<1>1. PICK responses \in SUBSET UNION {Says(id) : id \in Due} :
         /\ \A id \in Due : Cardinality({r \in responses : r.id = id}) = 1
         /\ owed' = responses
         /\ \/ reply' = Multistatus(responses, {}, clock)
            \/ \E some \in SUBSET responses :
                  \/ reply' = Multistatus(some, {}, None)
                  \/ \E id \in Ids :
                      reply' = Multistatus(
                          responses \cup {Response(id, 0, FALSE, FALSE, None)},
                          some, clock)
  BY DEF ServerSyncs
<1>2. phase = "sync" /\ phase' = "sync"
  BY <1>0
<1>3. Times' /\ Kept'
  BY <1>0, <1>2 DEF IInv, Times, Kept, Wanted
<1>4. Reported(ChangedItems(responses), DeletedItems(responses), clock)
  BY <1>1, WholeAnswer DEF IInv
<1>5. reply'.token \in Nat /\ reply'.token <= clock
  <2>1. \A rs, early, t : Multistatus(rs, early, t).token = t
    BY DEF Multistatus
  <2>2. CASE reply' = Multistatus(responses, {}, clock)
    <3>1. reply'.token = clock
      BY <2>1, <2>2
    <3> QED BY <3>1 DEF IInv, Times
  <2>3. ASSUME NEW rs, NEW early, reply' = Multistatus(rs, early, None)
        PROVE  reply'.token \in Nat /\ reply'.token <= clock
    <3>1. reply'.token = None
      BY <2>1, <2>3
    <3> QED BY <3>1 DEF IInv, Times, None
  <2>4. ASSUME NEW rs, NEW early, reply' = Multistatus(rs, early, clock)
        PROVE  reply'.token \in Nat /\ reply'.token <= clock
    <3>1. reply'.token = clock
      BY <2>1, <2>4
    <3> QED BY <3>1 DEF IInv, Times
  <2> QED BY <1>1, <2>2, <2>3, <2>4
<1>6. Readable' => reply'.responses = owed' /\ reply'.token = clock
  <2>1. CASE reply' = Multistatus(responses, {}, clock)
    BY <1>1, <2>1 DEF Multistatus
  <2>2. ASSUME NEW some, reply' = Multistatus(some, {}, None)
        PROVE  ~Readable'
    BY <2>2 DEF Multistatus, Readable
  <2>3. ASSUME NEW some, NEW id \in Ids,
               reply' = Multistatus(
                   responses \cup {Response(id, 0, FALSE, FALSE, None)}, some, clock)
        PROVE  ~Readable'
    <3>1. IsUnreadable(Response(id, 0, FALSE, FALSE, None))
      BY DEF IsUnreadable, IsDeleted, IsUnsupported, Response
    <3>2. Response(id, 0, FALSE, FALSE, None) \in reply'.responses
      BY <2>3 DEF Multistatus
    <3> QED BY <3>1, <3>2 DEF Readable
  <2> QED BY <1>1, <2>1, <2>2, <2>3
<1>7. Readable' => Reported(ChangedItems(owed), DeletedItems(owed), reply.token)'
  BY <1>0, <1>1, <1>4, <1>6 DEF Reported, ChangedItems, DeletedItems
<1>8. Asked'
  BY <1>0, <1>2, <1>5, <1>6, <1>7 DEF IInv, Asked
<1>9. Found' /\ Chosen' /\ Sends'
  BY <1>2 DEF Found, Chosen, Sends
<1> QED BY <1>3, <1>8, <1>9 DEF IInv

LEMMA StepServerSends == ASSUME IInv, ServerSends PROVE IInv'
<1> DEFINE request == ItemsReportQuery(protocol, mUrls)
           tag == IF protocol = "CalDav" THEN "calendar-data" ELSE "address-data"
           bare(id) == Response(id, 0, TRUE, FALSE, server[id])
           item(id) == IF tag \in request.props
                       THEN [bare(id) EXCEPT !.tag = tag, !.data = server[id]]
                       ELSE bare(id)
           gone(id) == Response(id, 0, FALSE, FALSE, None)
           whole == {IF server[id] # None THEN item(id) ELSE gone(id) :
                        id \in request.hrefs}
<1>1. /\ phase = "fetch"
      /\ UNCHANGED <<server, changedAt, clock, appVars, syncVars, fetchVars,
                     errorVars, owed>>
  BY DEF ServerSends
<1>2. reply' = Multistatus(whole, {}, None) \/
      \E id \in request.hrefs : \E instead \in SUBSET {bare(id)} :
          reply' = Multistatus((whole \ {item(id)}) \cup instead, {}, None)
  BY DEF ServerSends
<1>3. request.hrefs = mUrls
  BY DEF ItemsReportQuery, CaldavMultigetQuery, CarddavMultigetQuery, MultigetQuery
<1> USE DEF appVars, syncVars, fetchVars, errorVars
<1>4. \A id \in mUrls : id \in Ids
  BY <1>1 DEF IInv, Chosen, Found, Reported
<1>5. ASSUME NEW id \in mUrls
      PROVE  /\ bare(id).data = None /\ gone(id).data = None
             /\ item(id).data # None => Current(item(id).id, item(id).data)
  <2>1. id \in Ids
    BY <1>4
  <2>2. bare(id).data = None /\ gone(id).data = None
    BY DEF Response
  <2>3. item(id).data # None => item(id).id = id /\ item(id).data = server[id]
    BY <2>2 DEF Response
  <2> QED BY <2>1, <2>2, <2>3 DEF Current
<1> HIDE DEF request, bare, item, gone
<1>6. \A r \in reply'.responses : r.data # None => Current(r.id, r.data)
  <2>1. \A r \in whole : r.data # None => Current(r.id, r.data)
    BY <1>3, <1>5
  <2> HIDE DEF whole
  <2>2. CASE reply' = Multistatus(whole, {}, None)
    <3>1. reply'.responses = whole
      BY <2>2 DEF Multistatus
    <3> QED BY <2>1, <3>1
  <2>3. ASSUME NEW id \in request.hrefs, NEW instead \in SUBSET {bare(id)},
               reply' = Multistatus((whole \ {item(id)}) \cup instead, {}, None)
        PROVE  \A r \in reply'.responses : r.data # None => Current(r.id, r.data)
    <3>1. reply'.responses = (whole \ {item(id)}) \cup instead
      BY <2>3 DEF Multistatus
    <3> QED BY <1>3, <1>5, <2>1, <2>3, <3>1
  <2> QED BY <1>2, <2>2, <2>3
<1> HIDE DEF whole
<1>7. Times' /\ Kept'
  <2>1. Times'
    BY <1>1 DEF IInv, Times
  <2>2. Kept'
    BY <1>1 DEF IInv, Kept, Wanted
  <2> QED BY <2>1, <2>2
<1>8. Sends'
  <2>1. \A q, data : Current(q, data)' <=> Current(q, data)
    BY <1>1 DEF Current
  <2> QED BY <1>1, <1>6, <2>1 DEF IInv, Sends
<1>9. Found' /\ Chosen' /\ Asked'
  <2>1. Found'
    BY <1>1 DEF IInv, Found, Reported
  <2>2. Chosen'
    BY <1>1 DEF IInv, Chosen
  <2>3. Asked'
    BY <1>1 DEF Asked
  <2> QED BY <2>1, <2>2, <2>3
<1> QED BY <1>7, <1>8, <1>9 DEF IInv

LEMMA StepServerFails == ASSUME IInv, ServerFails PROVE IInv'
<1> USE DEF ServerFails, appVars, syncVars, fetchVars, errorVars
<1>1. /\ reply'.multistatus = FALSE /\ reply'.responses = {} /\ reply'.token = None
  BY Replies
<1>2. Times' /\ Kept'
  BY DEF IInv, Times, Kept, Wanted
<1>3. Asked'
  <2>1. ~Readable'
    BY <1>1 DEF Readable
  <2> QED BY <1>1, <2>1 DEF IInv, Times, Asked, None
<1>4. Found'
  BY DEF IInv, Found, Reported, ChangedItems, DeletedItems
<1>5. Chosen'
  BY DEF IInv, Chosen
<1>6. Sends'
  BY <1>1 DEF IInv, Sends, Current
<1> QED BY <1>2, <1>3, <1>4, <1>5, <1>6 DEF IInv

\* What is about members that did not change since a token stays true of those
\* that still did not.
LEMMA StepOtherClient ==
    ASSUME IInv, NEW id \in Ids, OtherClient(id)
    PROVE  IInv'
<1> USE DEF OtherClient, appVars, syncVars, fetchVars, errorVars
<1>1. /\ clock' = clock + 1 /\ clock \in Nat
      /\ changedAt' = [changedAt EXCEPT ![id] = clock + 1]
      /\ \A q \in Ids \ {id} : server'[q] = server[q] /\ changedAt'[q] = changedAt[q]
      /\ server' \in [Ids -> Nat] /\ changedAt'[id] = clock + 1
  BY DEF IInv, Times, None
<1>2. ASSUME NEW t \in Nat, t <= clock, NEW q \in Ids, changedAt'[q] <= t
      PROVE  q # id /\ server'[q] = server[q] /\ changedAt'[q] = changedAt[q]
  BY <1>1, <1>2
<1>3. Times'
  BY <1>1 DEF IInv, Times
<1>4. Kept'
  <2>1. token \in Nat /\ token <= clock
    BY DEF IInv, Times
  <2> QED BY <1>2, <2>1 DEF IInv, Kept, Wanted
<1>5. ASSUME NEW changed, NEW deleted, NEW t \in Nat, t <= clock,
             Reported(changed, deleted, t)
      PROVE  Reported(changed, deleted, t)'
  <2>1. \A item \in changed : item.id \in Ids \ Subcollections
    BY <1>5 DEF Reported
  <2>2. ASSUME NEW q \in Ids, changedAt'[q] <= t
        PROVE  /\ \A item \in changed :
                      item.id = q => item.etag = server'[q] /\ server'[q] # None
               /\ q \in deleted => server'[q] = None
               /\ mSyncToken' = None \/ changedAt'[q] > mSyncToken' =>
                     /\ server'[q] = None => mSyncToken' = None \/ q \in deleted
                     /\ server'[q] # None /\ q \notin Subcollections =>
                           \E item \in changed : item.id = q
    <3>1. server'[q] = server[q] /\ changedAt'[q] = changedAt[q]
      BY <1>2, <1>5, <2>2
    <3> QED BY <1>5, <2>2, <3>1 DEF Reported
  <2> QED BY <2>1, <2>2 DEF Reported
<1>6. mNewSyncToken \in Nat /\ mNewSyncToken <= clock
  BY DEF IInv, Times
<1>7. Asked'
  <2>1. ASSUME phase = "sync", Answered, Readable
        PROVE  Reported(ChangedItems(owed), DeletedItems(owed), reply.token)'
    <3> DEFINE changed == ChangedItems(owed)
               deleted == DeletedItems(owed)
               t == reply.token
    <3>1. t \in Nat /\ t <= clock /\ Reported(changed, deleted, t)
      BY <2>1 DEF IInv, Asked
    <3>2. changed' = changed /\ deleted' = deleted /\ t' = t
      BY DEF ChangedItems, DeletedItems
    <3> HIDE DEF changed, deleted, t
    <3>3. Reported(changed, deleted, t)'
      BY <1>5, <3>1, <3>2
    <3> QED BY <3>3 DEF changed, deleted, t
  <2>2. Readable' = Readable /\ Answered' = Answered
    BY DEF Readable, Answered
  <2>3. phase = "sync" /\ Answered => reply'.token \in Nat /\ reply'.token <= clock'
    BY <1>1 DEF IInv, Asked
  <2> QED BY <2>1, <2>2, <2>3 DEF IInv, Asked
<1>8. Found'
  <2>1. Reported(mChangedItems, mDeletedItems, mNewSyncToken) =>
            Reported(mChangedItems, mDeletedItems, mNewSyncToken)'
    BY <1>5, <1>6
  <2> QED BY <2>1 DEF IInv, Found, ChangedItems, DeletedItems
<1>9. Chosen'
  BY DEF IInv, Chosen
<1>10. Sends'
  <2>1. ASSUME NEW q, NEW data, Current(q, data)
        PROVE  Current(q, data)'
    BY <1>2, <1>6, <2>1 DEF Current
  <2>2. Answered' = Answered
    BY DEF Answered
  <2> QED BY <2>1, <2>2 DEF IInv, Sends
<1> QED BY <1>3, <1>4, <1>7, <1>8, <1>9, <1>10 DEF IInv

(***************************************************************************)
(* Types.  An answer on its way is a record whose responses have the ETags *)
(* they should have: what the jobs read of it is well-formed then.         *)
(***************************************************************************)

Multistatuses ==
    [state : {"answered"}, netError : BOOLEAN, status : Nat,
     multistatus : BOOLEAN, responses : SUBSET Responses,
     early : SUBSET Responses, token : Time \cup {None}]

Tagged(responses) == \A r \in responses : r.ok => r.etag # None

ReplyOK ==
    /\ reply \in {NoReply, Sent} \cup Multistatuses
    /\ Answered => reply.early \subseteq reply.responses /\ Tagged(reply.responses)

TInv == TypeOK /\ ReplyOK

LEMMA ReplyStates ==
    ASSUME NEW r \in {NoReply, Sent} \cup Multistatuses
    PROVE  /\ r.state \in {"none", "sent", "answered"}
           /\ r.state = "answered" =>
                 /\ r \in Multistatuses /\ r.responses \subseteq Responses
                 /\ r.status \in Nat /\ r.token \in Time \cup {None}
BY Replies DEF Multistatuses

LEMMA MultistatusType ==
    ASSUME NEW responses \in SUBSET Responses, NEW early \in SUBSET responses,
           NEW newToken \in Time \cup {None}
    PROVE  LET m == Multistatus(responses, early, newToken)
           IN  /\ m \in Multistatuses
               /\ m.responses = responses /\ m.early = early
BY DEF Multistatus, Multistatuses

LEMMA NoMultistatusType ==
    /\ NoMultistatus \in Multistatuses
    /\ NoMultistatus.early = {}
    /\ \A status \in Nat : /\ Failure(status) \in Multistatuses
                           /\ Failure(status).early = {}
BY DEF NoMultistatus, Failure, Multistatus, Multistatuses

\* An answer with these responses is as it should be.
LEMMA AnswerType ==
    ASSUME NEW responses \in SUBSET Responses, NEW early \in SUBSET responses,
           NEW newToken \in Time \cup {None}, Tagged(responses),
           reply' = Multistatus(responses, early, newToken)
    PROVE  ReplyOK'
BY MultistatusType DEF ReplyOK, Tagged

\* What the jobs read.
LEMMA ReadTypes ==
    ASSUME NEW responses \in SUBSET Responses, Tagged(responses)
    PROVE  /\ ChangedItems(responses) \subseteq Item
           /\ DeletedItems(responses) \subseteq Ids
           /\ FetchedItems(responses) \subseteq FetchedItem
<1>1. ASSUME NEW r \in responses
      PROVE  /\ r.id \in Ids /\ (r.ok => r.etag \in Time)
             /\ r.data # None => r.data \in Time
  BY DEF Responses, Tagged
<1>2. ChangedItems(responses) \subseteq Item
  BY <1>1 DEF ChangedItems, Item, IsChangedItem
<1>3. DeletedItems(responses) \subseteq Ids
  BY <1>1 DEF DeletedItems
<1>4. FetchedItems(responses) \subseteq FetchedItem
  BY <1>1 DEF FetchedItems, FetchedItem
<1> QED BY <1>2, <1>3, <1>4

\* What the server says is well-formed.
LEMMA SaysTypes ==
    ASSUME TInv, NEW id \in Ids, NEW r \in Says(id)
    PROVE  r \in Responses /\ (r.ok => r.etag # None)
<1>1. server[id] \in Time \cup {None}
  BY DEF TInv, TypeOK
<1>2. ASSUME NEW status \in {0, 403, 404}, r = Response(id, status, FALSE, FALSE, None)
      PROVE  r \in Responses /\ ~r.ok
  BY <1>2 DEF Response, Responses
<1>3. ASSUME NEW b \in BOOLEAN, server[id] # None,
             r = Response(id, 0, TRUE, b, server[id])
      PROVE  r \in Responses /\ r.etag # None
  BY <1>1, <1>3 DEF Response, Responses
<1>4. CASE r = Response(id, 404, FALSE, FALSE, None)
  BY <1>2, <1>4
<1>5. CASE r = Response(id, 403, FALSE, FALSE, None)
  BY <1>2, <1>5
<1>6. CASE server[id] # None /\ r = Response(id, 0, TRUE, TRUE, server[id])
  BY <1>3, <1>6
<1>7. CASE server[id] # None /\ r = Response(id, 0, TRUE, FALSE, server[id])
  BY <1>3, <1>7
<1> QED BY <1>4, <1>5, <1>6, <1>7 DEF Says

LEMMA InitTInv == Init => TInv
<1> SUFFICES ASSUME Init
             PROVE  TInv
  OBVIOUS
<1>1. 1 \in Time
  BY CollectionSyncAssumption DEF Time
<1>2. NO_ERR \in ErrorNumber
  BY DEF ErrorNumber
<1> QED BY <1>1, <1>2, Replies, CollectionSyncAssumption
        DEF Init, TInv, TypeOK, ReplyOK, Answered

LEMMA TypesSync ==
    ASSUME TInv, SyncStart \/ SyncFinished \/ GiveUpSync
    PROVE  TInv'
<1> USE DEF envVars, appVars, syncVars, fetchVars, errorVars
<1>1. NO_ERR \in ErrorNumber /\ "ERR_PROBLEM_WITH_REQUEST" \in ErrorNumber
      /\ "ERR_MALFORMED_RESPONSE" \in ErrorNumber
  BY DEF ErrorNumber, NO_ERR
<1>2. CASE SyncStart
  BY <1>1, <1>2, Replies DEF SyncStart, TInv, TypeOK, ReplyOK, Answered
<1>3. CASE GiveUpSync
  BY <1>3 DEF GiveUpSync, TInv, TypeOK, ReplyOK, Answered
<1>4. CASE SyncFinished
  <2>1. /\ reply.responses \in SUBSET Responses /\ Tagged(reply.responses)
        /\ reply.early \subseteq reply.responses
        /\ reply.status \in Nat /\ reply.token \in Time \cup {None}
    BY <1>4, ReplyStates DEF SyncFinished, TInv, ReplyOK, Answered
  <2>2. /\ mChangedItems' \subseteq Item /\ mDeletedItems' \subseteq Ids
        /\ mNewSyncToken' \in Time \cup {None} /\ mSyncToken' = mSyncToken
    <3>1. CASE UNCHANGED syncVars
      BY <3>1 DEF TInv, TypeOK
    <3>2. CASE SyncReads /\ UNCHANGED mSyncToken
      <4> DEFINE unreadable == {r \in reply.responses : IsUnreadable(r)}
                 read == IF unreadable = {} THEN reply.responses
                                            ELSE reply.early \ unreadable
      <4>1. read \in SUBSET Responses /\ Tagged(read)
        BY <2>1 DEF Tagged
      <4>2. /\ mChangedItems' = ChangedItems(read)
            /\ mDeletedItems' = DeletedItems(read)
            /\ mNewSyncToken' \in {reply.token, mNewSyncToken}
        BY <3>2 DEF SyncReads
      <4> HIDE DEF read
      <4>3. mNewSyncToken \in Time \cup {None}
        BY DEF TInv, TypeOK
      <4> QED BY <2>1, <3>2, <4>1, <4>2, <4>3, ReadTypes
    <3> QED BY <1>4, <3>1, <3>2 DEF SyncFinished
  <2>3. error' \in ErrorNumber /\ latestResponseCode' \in Nat
    BY <1>1, <1>4, <2>1 DEF SyncFinished, SyncReads, JobFails, TInv, TypeOK
  <2>4. /\ phase' = "synced" /\ reply' = NoReply
        /\ UNCHANGED <<envVars, protocol, mirror, token, fetchVars, owed>>
    BY <1>4 DEF SyncFinished
  <2> QED BY <2>2, <2>3, <2>4, Replies DEF TInv, TypeOK, ReplyOK, Answered
<1> QED BY <1>2, <1>3, <1>4

LEMMA TypesFetch ==
    ASSUME TInv, FetchChanged \/ FetchFinished \/ TakeOver
    PROVE  TInv'
<1> USE DEF envVars, appVars, syncVars, fetchVars, errorVars
<1>1. NO_ERR \in ErrorNumber /\ "ERR_PROBLEM_WITH_REQUEST" \in ErrorNumber
      /\ "ERR_NO_MULTIGET" \in ErrorNumber
  BY DEF ErrorNumber, NO_ERR
<1>2. CASE FetchChanged
  <2>1. Stale \subseteq Ids
    BY DEF Stale
  <2>2. UNCHANGED <<envVars, protocol, mirror, token, syncVars, owed>>
    BY <1>2 DEF FetchChanged
  <2>3. /\ mUrls' \subseteq Ids /\ mItems' = {}
        /\ phase' \in {"fetch", "fetched"} /\ reply' \in {Sent, reply}
        /\ error' \in ErrorNumber /\ latestResponseCode' \in Nat
    BY <1>1, <1>2, <2>1 DEF FetchChanged, FetchStart, TInv, TypeOK
  <2>4. ReplyOK'
    BY <2>3, Replies DEF TInv, ReplyOK, Answered
  <2> QED BY <2>2, <2>3, <2>4, Replies DEF TInv, TypeOK, Answered
<1>3. CASE FetchFinished
  <2>1. /\ reply.responses \in SUBSET Responses /\ Tagged(reply.responses)
        /\ reply.status \in Nat
    BY <1>3, ReplyStates DEF FetchFinished, TInv, ReplyOK, Answered
  <2>2. mItems' \subseteq FetchedItem
    BY <1>3, <2>1, ReadTypes DEF FetchFinished, TInv, TypeOK
  <2>3. error' \in ErrorNumber /\ latestResponseCode' \in Nat
    BY <1>1, <1>3, <2>1 DEF FetchFinished, JobFails, TInv, TypeOK
  <2>4. /\ phase' = "fetched" /\ reply' = NoReply
        /\ UNCHANGED <<envVars, protocol, mirror, token, syncVars, mUrls, owed>>
    BY <1>3 DEF FetchFinished
  <2> QED BY <2>2, <2>3, <2>4, Replies DEF TInv, TypeOK, ReplyOK, Answered
<1>4. CASE TakeOver
  <2>1. ASSUME NEW id \in mUrls, mUrls \subseteq {item.id : item \in mItems}
        PROVE  (CHOOSE item \in mItems : item.id = id).data \in Time
    <3> DEFINE chosen == CHOOSE item \in mItems : item.id = id
    <3>1. chosen \in mItems
      BY <2>1
    <3> HIDE DEF chosen
    <3>2. chosen.data \in Time
      BY <3>1 DEF TInv, TypeOK, FetchedItem
    <3> QED BY <3>2 DEF chosen
  <2>2. mirror' \in [Ids -> Time \cup {None}] /\ token' \in Time \cup {None}
    BY <1>4, <2>1 DEF TakeOver, TInv, TypeOK
  <2>3. /\ phase' = "idle"
        /\ UNCHANGED <<envVars, reply, protocol, syncVars, fetchVars, errorVars, owed>>
    BY <1>4 DEF TakeOver
  <2> QED BY <2>2, <2>3 DEF TInv, TypeOK, ReplyOK, Answered
<1> QED BY <1>2, <1>3, <1>4

LEMMA TypesServer ==
    ASSUME TInv, ServerSyncs \/ ServerSends \/ ServerFails
    PROVE  TInv'
<1> USE DEF appVars, syncVars, fetchVars, errorVars
<1>1. UNCHANGED <<server, changedAt, clock, appVars, syncVars, fetchVars, errorVars>>
  BY DEF ServerSyncs, ServerSends, ServerFails
<1>2. faults' \in 0 .. MaxFaults
  <2>1. faults' = faults \/ Fault
    BY DEF ServerSyncs, ServerSends, ServerFails
  <2> QED BY <2>1, CollectionSyncAssumption DEF TInv, TypeOK, Fault
<1>3. clock \in Time \cup {None} /\ None \in Time \cup {None}
  BY DEF TInv, TypeOK
<1>4. SUFFICES ReplyOK' /\ owed' \subseteq Responses
  <2>1. ReplyOK' => /\ reply'.state \in {"none", "sent", "answered"}
                    /\ Answered' => /\ reply'.early \subseteq reply'.responses
                                    /\ reply'.responses \subseteq Responses
    BY ReplyStates DEF ReplyOK, Answered
  <2> QED BY <1>1, <1>2, <1>4, <2>1 DEF TInv, TypeOK
<1>5. \A id \in Ids :
        LET r == Response(id, 0, FALSE, FALSE, None)
        IN  r \in Responses /\ r.ok = FALSE
  BY DEF Response, Responses
<1>6. CASE ServerSyncs
  <2>1. PICK responses \in SUBSET UNION {Says(id) : id \in Due} :
           /\ owed' = responses
           /\ \/ reply' = Multistatus(responses, {}, clock)
              \/ \E some \in SUBSET responses :
                    \/ reply' = Multistatus(some, {}, None)
                    \/ \E id \in Ids :
                        reply' = Multistatus(
                            responses \cup {Response(id, 0, FALSE, FALSE, None)},
                            some, clock)
    BY <1>6 DEF ServerSyncs
  <2>2. \A r \in responses : r \in Responses /\ (r.ok => r.etag # None)
    BY SaysTypes DEF Due
  <2>3. CASE reply' = Multistatus(responses, {}, clock)
    BY <1>3, <2>1, <2>2, <2>3, AnswerType DEF Tagged
  <2>4. ASSUME NEW some \in SUBSET responses, reply' = Multistatus(some, {}, None)
        PROVE  ReplyOK'
    BY <1>3, <2>2, <2>4, AnswerType DEF Tagged
  <2>5. ASSUME NEW some \in SUBSET responses, NEW id \in Ids,
               reply' = Multistatus(
                   responses \cup {Response(id, 0, FALSE, FALSE, None)}, some, clock)
        PROVE  ReplyOK'
    <3> DEFINE all == responses \cup {Response(id, 0, FALSE, FALSE, None)}
    <3>1. all \in SUBSET Responses /\ some \in SUBSET all /\ Tagged(all)
      BY <1>5, <2>2 DEF Tagged
    <3>2. reply' = Multistatus(all, some, clock)
      BY <2>5
    <3> HIDE DEF all
    <3> QED BY <1>3, <3>1, <3>2, AnswerType
  <2> QED BY <2>1, <2>2, <2>3, <2>4, <2>5
<1>7. CASE ServerSends
  <2>0. ASSUME NEW responses \in SUBSET Responses, Tagged(responses),
               reply' = Multistatus(responses, {}, None)
        PROVE  ReplyOK'
    BY <1>3, <2>0, AnswerType
  <2> DEFINE request == ItemsReportQuery(protocol, mUrls)
             tag == IF protocol = "CalDav" THEN "calendar-data" ELSE "address-data"
             bare(id) == Response(id, 0, TRUE, FALSE, server[id])
             item(id) == IF tag \in request.props
                         THEN [bare(id) EXCEPT !.tag = tag, !.data = server[id]]
                         ELSE bare(id)
             gone(id) == Response(id, 0, FALSE, FALSE, None)
             whole == {IF server[id] # None THEN item(id) ELSE gone(id) :
                          id \in request.hrefs}
  <2>1. \/ reply' = Multistatus(whole, {}, None)
        \/ \E id \in {i \in request.hrefs : server[i] # None} :
              \E instead \in SUBSET {bare(id)} :
                  reply' = Multistatus((whole \ {item(id)}) \cup instead, {}, None)
    BY <1>7 DEF ServerSends
  <2>2. request.hrefs \subseteq Ids
    BY DEF ItemsReportQuery, CaldavMultigetQuery, CarddavMultigetQuery,
           MultigetQuery, TInv, TypeOK
  <2>3. ASSUME NEW id \in Ids, server[id] # None
        PROVE  /\ bare(id) \in Responses /\ bare(id).etag # None
               /\ item(id) \in Responses /\ item(id).etag # None
    <3>1. server[id] \in Time
      BY <2>3 DEF TInv, TypeOK
    <3>2. bare(id) \in Responses /\ bare(id).etag # None
      BY <2>3, <3>1 DEF Response, Responses
    <3>3. tag \in {"calendar-data", "address-data"}
      OBVIOUS
    <3> HIDE DEF bare, tag, request
    <3>4. /\ [bare(id) EXCEPT !.tag = tag, !.data = server[id]] \in Responses
          /\ [bare(id) EXCEPT !.tag = tag, !.data = server[id]].etag # None
      BY <3>1, <3>2, <3>3 DEF Responses
    <3> QED BY <3>2, <3>4
  <2> HIDE DEF request, bare, item
  <2>4. \A r \in whole : r \in Responses /\ (r.ok => r.etag # None)
    BY <1>5, <2>2, <2>3
  <2> HIDE DEF whole
  <2>5. ASSUME reply' = Multistatus(whole, {}, None)
        PROVE  ReplyOK'
    <3>1. whole \in SUBSET Responses /\ Tagged(whole)
      BY <2>4 DEF Tagged
    <3>2. reply' = Multistatus(whole, {}, None)
      BY <2>5
    <3> QED BY <2>0, <3>1, <3>2
  <2>6. ASSUME NEW id \in {i \in request.hrefs : server[i] # None},
               NEW instead \in SUBSET {bare(id)},
               reply' = Multistatus((whole \ {item(id)}) \cup instead, {}, None)
        PROVE  ReplyOK'
    <3> DEFINE some == (whole \ {item(id)}) \cup instead
    <3>1. some \in SUBSET Responses /\ Tagged(some)
      BY <2>2, <2>3, <2>4 DEF Tagged
    <3>2. reply' = Multistatus(some, {}, None)
      BY <2>6
    <3> HIDE DEF some
    <3> QED BY <2>0, <3>1, <3>2
  <2>7. owed' \subseteq Responses
    BY <1>7 DEF ServerSends, TInv, TypeOK
  <2> QED BY <2>1, <2>5, <2>6, <2>7
<1>8. CASE ServerFails
  <2>1. \/ \E status \in FailCodes \cup {403} : reply' = Failure(status)
        \/ reply' = NoMultistatus
    BY <1>8 DEF ServerFails
  <2>2. FailCodes \cup {403} \subseteq Nat
    BY CollectionSyncAssumption
  <2>3. reply' \in Multistatuses /\ reply'.early = {} /\ reply'.responses = {}
    BY <2>1, <2>2, NoMultistatusType, Replies
  <2>4. owed' \subseteq Responses
    BY <1>8 DEF ServerFails, TInv, TypeOK
  <2> QED BY <2>3, <2>4 DEF ReplyOK, Tagged
<1> QED BY <1>6, <1>7, <1>8

LEMMA TypesOtherClient ==
    ASSUME TInv, NEW id \in Ids, OtherClient(id)
    PROVE  TInv'
<1> USE DEF appVars, syncVars, fetchVars, errorVars
<1>1. clock + 1 \in Time
  BY CollectionSyncAssumption DEF TInv, TypeOK, OtherClient, Time
<1>2. /\ server' \in [Ids -> Time \cup {None}]
      /\ changedAt' \in [Ids -> Time] /\ clock' \in Time
  BY <1>1 DEF TInv, TypeOK, OtherClient
<1>3. UNCHANGED <<faults, reply, appVars, syncVars, fetchVars, errorVars, owed>>
  BY DEF OtherClient
<1> QED BY <1>2, <1>3 DEF TInv, TypeOK, ReplyOK, Answered

LEMMA StepTInv == TInv /\ [Next]_vars => TInv'
<1> SUFFICES ASSUME TInv, [Next]_vars
             PROVE  TInv'
  OBVIOUS
<1>1. CASE UNCHANGED vars
  BY <1>1 DEF vars, envVars, appVars, syncVars, fetchVars, errorVars,
              TInv, TypeOK, ReplyOK, Answered
<1> QED BY <1>1, TypesSync, TypesFetch, TypesServer, TypesOtherClient
        DEF Next, Handler, Application, Server

(***************************************************************************)
(* The refinement.  Beyond IInv it needs that tokens do not go backward:   *)
(* the one a sync ends with is the time of the answer, and the one it      *)
(* began with was the application's.                                       *)
(***************************************************************************)

Ahead ==
    /\ phase = "sync" /\ Answered => reply.token = None \/ token <= reply.token
    /\ phase = "synced" => mNewSyncToken = None \/ token <= mNewSyncToken
    /\ phase \in {"fetch", "fetched"} => token <= mNewSyncToken

LEMMA InitAhead == Init => Ahead
BY DEF Init, Ahead

LEMMA StepAhead ==
    ASSUME IInv, Ahead, [Next]_vars
    PROVE  Ahead'
<1> USE DEF envVars, appVars, syncVars, fetchVars, errorVars
<1>0. token \in Nat /\ token <= clock
  BY DEF IInv, Times
<1>1. CASE SyncStart
  <2>1. phase' = "sync" /\ Answered' = FALSE
    BY <1>1, Replies DEF SyncStart, Answered
  <2> QED BY <2>1 DEF Ahead
<1>2. CASE SyncFinished
  <2>1. /\ phase' = "synced" /\ token' = token
        /\ phase = "sync" /\ Answered /\ mNewSyncToken = None
    BY <1>2 DEF SyncFinished, IInv, Asked
  <2>2. mNewSyncToken' \in {None, reply.token}
    BY <1>2, <2>1 DEF SyncFinished, SyncReads
  <2> QED BY <2>1, <2>2 DEF Ahead
<1>3. CASE GiveUpSync \/ TakeOver
  BY <1>3 DEF GiveUpSync, TakeOver, Ahead
<1>4. CASE FetchChanged
  <2>1. /\ phase = "synced" /\ mNewSyncToken # None
        /\ phase' \in {"fetch", "fetched"}
        /\ token' = token /\ mNewSyncToken' = mNewSyncToken
    BY <1>4 DEF FetchChanged, FetchStart
  <2> QED BY <2>1 DEF Ahead
<1>5. CASE FetchFinished
  <2>1. /\ phase = "fetch" /\ phase' = "fetched"
        /\ token' = token /\ mNewSyncToken' = mNewSyncToken
    BY <1>5 DEF FetchFinished
  <2> QED BY <2>1 DEF Ahead
<1>6. CASE ServerSyncs
  <2>1. phase = "sync" /\ phase' = "sync" /\ token' = token
    BY <1>6 DEF ServerSyncs
  <2>2. reply'.token \in {None, clock}
    <3>1. \A rs, early, t : Multistatus(rs, early, t).token = t
      BY DEF Multistatus
    <3>2. \E rs, early : \/ reply' = Multistatus(rs, early, clock)
                        \/ reply' = Multistatus(rs, early, None)
      BY <1>6, Zenon DEF ServerSyncs
    <3> QED BY <3>1, <3>2
  <2> QED BY <1>0, <2>1, <2>2 DEF Ahead
<1>7. CASE ServerSends
  <2>1. /\ phase = "fetch" /\ phase' = "fetch"
        /\ token' = token /\ mNewSyncToken' = mNewSyncToken
    BY <1>7 DEF ServerSends
  <2> QED BY <2>1 DEF Ahead
<1>8. CASE ServerFails
  <2>1. reply'.token = None
    BY <1>8, Replies DEF ServerFails
  <2>2. phase' = phase /\ token' = token /\ mNewSyncToken' = mNewSyncToken
    BY <1>8 DEF ServerFails
  <2> QED BY <2>1, <2>2 DEF Ahead
<1>9. ASSUME NEW id \in Ids, OtherClient(id)
      PROVE  Ahead'
  BY <1>9 DEF OtherClient, Ahead, Answered
<1>10. CASE UNCHANGED vars
  BY <1>10 DEF vars, Ahead, Answered
<1> QED BY <1>1, <1>2, <1>3, <1>4, <1>5, <1>6, <1>7, <1>8, <1>9, <1>10
        DEF Next, Handler, Application, Server

LEMMA InitCopy == Init => Copy!Init
<1> SUFFICES ASSUME Init
             PROVE  Copy!Init
  OBVIOUS
<1>1. server \in [Ids -> {0, 1}]
  BY DEF Init, None
<1> QED BY <1>1 DEF Init, None, Copy!Init, Copy!Nothing

\* Every step is a step of the replica, or leaves it alone.
LEMMA StepCopy ==
    ASSUME IInv, IInv', TInv', Ahead, [Next]_vars
    PROVE  [Copy!Next]_(Copy!vars)
<1> USE DEF envVars, appVars, syncVars, fetchVars, errorVars
<1>1. CASE TakeOver
  <2>1. phase = "fetched" /\ UNCHANGED <<server, changedAt, clock>>
    BY <1>1 DEF TakeOver
  <2>2. CASE UNCHANGED <<mirror, token>>
    BY <2>1, <2>2 DEF Copy!vars
  <2>3. CASE token' = mNewSyncToken
    <3>1. token' \in token .. clock
      BY <2>1, <2>3 DEF IInv, Times, Ahead
    <3>2. mirror' \in [Ids -> Nat]
      BY CollectionSyncAssumption DEF TInv, TypeOK, Time, None
    <3>3. \A id \in Ids : changedAt[id] <= token' => mirror'[id] = Copy!Right(id)
      BY <2>1 DEF IInv, Kept, Wanted, None, Copy!Right, Copy!Nothing
    <3> QED BY <2>1, <3>1, <3>2, <3>3 DEF Copy!Next, Copy!Sync
  <2> QED BY <1>1, <2>2, <2>3 DEF TakeOver
<1>2. CASE GiveUpSync
  BY <1>2 DEF GiveUpSync, None, Copy!Next, Copy!StartAgain, Copy!vars, Copy!Nothing
<1>3. ASSUME NEW id \in Ids, OtherClient(id)
      PROVE  Copy!Next
  <2>1. Copy!Change(id)
    BY <1>3 DEF OtherClient, None, Copy!Change, Copy!Nothing
  <2> QED BY <2>1 DEF Copy!Next
<1>4. CASE SyncStart \/ FetchChanged \/ Handler \/ Server \/ UNCHANGED vars
  BY <1>4 DEF SyncStart, FetchChanged, Handler, SyncFinished, FetchFinished,
              Server, ServerSyncs, ServerSends, ServerFails, vars, Copy!vars
<1> QED BY <1>1, <1>2, <1>3, <1>4 DEF Next, Application

(***************************************************************************)
(* The theorems.                                                           *)
(***************************************************************************)

LEMMA InitIInv == Init => IInv
<1> SUFFICES ASSUME Init
             PROVE  IInv
  OBVIOUS
<1> USE DEF Init
<1>1. phase = "idle"
  OBVIOUS
<1>2. Times
  BY DEF Times, Phases, None
<1>3. Kept
  BY DEF Kept, None
<1> QED BY <1>1, <1>2, <1>3 DEF IInv, Asked, Found, Chosen, Sends

LEMMA StepIInv == IInv /\ [Next]_vars => IInv'
<1> SUFFICES ASSUME IInv, [Next]_vars
             PROVE  IInv'
  OBVIOUS
<1>1. CASE Handler
  BY <1>1, StepSyncFinished, StepFetchFinished DEF Handler
<1>2. CASE Application
  BY <1>2, StepSyncStart, StepGiveUpSync, StepFetchChanged, StepTakeOver
     DEF Application
<1>3. CASE Server
  BY <1>3, StepServerSyncs, StepServerSends, StepServerFails DEF Server
<1>4. ASSUME NEW id \in Ids, OtherClient(id)
      PROVE  IInv'
  BY <1>4, StepOtherClient
<1>5. CASE UNCHANGED vars
  <2> USE <1>5 DEF vars, envVars, appVars, syncVars, fetchVars, errorVars
  <2>1. Times' /\ Kept'
    BY DEF IInv, Times, Kept, Wanted
  <2>2. Asked'
    BY DEF IInv, Asked, Answered, Readable, Reported, ChangedItems, DeletedItems
  <2>3. Found'
    BY DEF IInv, Found, Reported, ChangedItems, DeletedItems
  <2>4. Chosen' /\ Sends'
    BY DEF IInv, Chosen, Sends, Answered, Current
  <2> QED BY <2>1, <2>2, <2>3, <2>4 DEF IInv
<1> QED BY <1>1, <1>2, <1>3, <1>4, <1>5 DEF Next

THEOREM Invariance == Spec => []IInv
<1> QED BY InitIInv, StepIInv, PTL DEF Spec

\* Every variable stays in its type: no ETag, token or time comes from nowhere,
\* and what the jobs read of any answer is well-formed.
THEOREM TypeCorrectness == Spec => []TypeOK
<1>1. TInv => TypeOK
  BY DEF TInv
<1> QED BY <1>1, InitTInv, StepTInv, PTL DEF Spec

\* An answer of which a part is lost or cannot be read never leaves a token.
THEOREM TokensAreEarned == Spec => []TokenMeansWhole
<1>1. IInv => TokenMeansWhole
  BY DEF IInv, Found, TokenMeansWhole
<1> QED BY <1>1, Invariance, PTL

\* What last changed before the token the application holds is in its copy as
\* it is on the server, whatever other clients and faults did in between.
THEOREM NothingIsMissed == Spec => []NoChangeMissed
<1>1. IInv => NoChangeMissed
  BY DEF IInv, Kept, NoChangeMissed
<1> QED BY <1>1, Invariance, PTL

\* An application that syncs with these jobs keeps a replica of the collection:
\* its token moves forward only, and with it the copy of what changed, whatever
\* other clients do and whatever goes wrong with the answers.
THEOREM Implementation == Spec => KeepsReplica
<1>1. IInv /\ TInv /\ Ahead /\ [Next]_vars => (IInv /\ TInv /\ Ahead)'
  BY StepIInv, StepTInv, StepAhead
<1>2. IInv /\ IInv' /\ TInv' /\ Ahead /\ [Next]_vars => [Copy!Next]_(Copy!vars)
  BY StepCopy
<1>3. Init => IInv /\ TInv /\ Ahead /\ Copy!Init
  BY InitIInv, InitTInv, InitAhead, InitCopy
<1> QED BY <1>1, <1>2, <1>3, PTL DEF Spec, KeepsReplica, Copy!Spec

=============================================================================
