------------------------- MODULE ItemsListJob_proofs -------------------------
(***************************************************************************)
(* Proofs about ItemsListJob: the inductive invariant IInv, the safety     *)
(* properties it implies, and that the job implements ResultOnce, for any  *)
(* sets of items, ETags and queries.                                       *)
(***************************************************************************)
EXTENDS ItemsListJob, FiniteSetTheorems, TLAPS

(***************************************************************************)
(* Facts about the data.                                                   *)
(***************************************************************************)

\* An idle or sent request is no answer.
LEMMA NotAnAnswer == Idle \notin Answers /\ Sent \notin Answers /\ Idle # Sent
BY DEF Idle, Sent, Answers

LEMMA ErrorNumbers ==
    /\ NO_ERR \in ErrorNumber
    /\ "ERR_PROBLEM_WITH_REQUEST" \in ErrorNumber
    /\ "ERR_ITEMLIST_NOMIMETYPE" \in ErrorNumber
    /\ "ERR_PROBLEM_WITH_REQUEST" # NO_ERR
    /\ "ERR_ITEMLIST_NOMIMETYPE" # NO_ERR
BY DEF ErrorNumber, NO_ERR

LEMMA WantedIsFinite ==
    /\ Wanted \subseteq Queries
    /\ IsFiniteSet(Wanted)
    /\ Cardinality(Wanted) \in Nat
    /\ Cardinality(Wanted) = 0 <=> Wanted = {}
<1>1. Wanted \subseteq Queries BY DEF Wanted
<1> QED BY <1>1, ItemsListJobAssumption, FS_Subset, FS_CardinalityType, FS_EmptySet

LEMMA PendingIsFinite ==
    /\ IsFiniteSet(Pending)
    /\ Cardinality(Pending) \in Nat
    /\ Cardinality(Pending) = 0 <=> Pending = {}
<1>1. Pending \subseteq Queries BY DEF Pending
<1> QED BY <1>1, ItemsListJobAssumption, FS_Subset, FS_CardinalityType, FS_EmptySet

\* A request that is answered is as pending as before.
LEMMA AnsweredStaysPending ==
    ASSUME TypeOK, NEW q \in Queries, inFlight[q] = Sent,
           NEW reply \in Answers,
           inFlight' = [inFlight EXCEPT ![q] = reply]
    PROVE  Pending' = Pending
<1>1. \A r \in Queries : inFlight'[r] = Idle <=> inFlight[r] = Idle
  BY NotAnAnswer DEF TypeOK
<1> QED BY <1>1 DEF Pending

\* The items of an answer are items.
LEMMA NewItemsType ==
    ASSUME NEW q \in Queries, NEW listed \in Listing
    PROVE  /\ NewItems(q, listed) \subseteq Item
           /\ \A item \in NewItems(q, listed) :
                  /\ item.id \in Ids \ mSeenUrls
                  /\ item.etag = listed[item.id]
                  /\ item.etag \in Etags
                  /\ item.contentType = q
           /\ \A id \in Ids \ mSeenUrls : listed[id] # NotListed =>
                  \E item \in NewItems(q, listed) : item.id = id
           /\ \A a, b \in NewItems(q, listed) : a.id = b.id => a = b
<1>1. \A id \in Ids : listed[id] # NotListed => listed[id] \in Etags
  BY DEF Listing
<1> DEFINE record(id) == [id |-> id, etag |-> listed[id], contentType |-> q]
           ids == {i \in Ids : listed[i] # NotListed /\ i \notin mSeenUrls}
<1>2. NewItems(q, listed) = {record(id) : id \in ids}
  BY DEF NewItems
<1>3. \A id \in ids : /\ record(id) \in Item
                      /\ record(id).id = id /\ record(id).etag = listed[id]
                      /\ record(id).contentType = q
  BY <1>1 DEF Item
<1>4. \A item \in NewItems(q, listed) : \E id \in ids : item = record(id)
  BY <1>2
<1>5. \A id \in ids : record(id) \in NewItems(q, listed)
  BY <1>2
<1> HIDE DEF record
<1>6. NewItems(q, listed) \subseteq Item
  BY <1>3, <1>4
<1>7. \A item \in NewItems(q, listed) :
          /\ item.id \in Ids \ mSeenUrls
          /\ item.etag = listed[item.id]
          /\ item.etag \in Etags
          /\ item.contentType = q
          /\ item = record(item.id)
  BY <1>1, <1>3, <1>4
<1>8. \A id \in Ids \ mSeenUrls : listed[id] # NotListed =>
          \E item \in NewItems(q, listed) : item.id = id
  BY <1>3, <1>5
<1> QED BY <1>6, <1>7, <1>8

(***************************************************************************)
(* Types and the counter.                                                  *)
(***************************************************************************)

LEMMA InitIInv == Init => IInv
<1> SUFFICES ASSUME Init PROVE IInv OBVIOUS
<1> USE NotAnAnswer, ErrorNumbers DEF Init
<1>1. TypeOK
  BY DEF TypeOK, CacheTypeOK, NO_ERR
<1>2. Pending = {}
  BY DEF Pending
<1>3. CountInv
  BY <1>2, PendingIsFinite DEF CountInv, CountsPending
<1>4. FailInv
  BY DEF FailInv
<1>5. ListedOnceAndNotDeleted
  BY DEF ListedOnceAndNotDeleted, SeenItems
<1>6. \A q \in Queries : ~Readable(q) /\ ~Handled(q)
  BY DEF Readable, Handled
<1>7. MissingInv /\ UntouchedInv
  <2>1. TypeOf \in [Ids -> Queries] BY ItemsListJobAssumption
  <2> QED BY <1>6, <2>1 DEF MissingInv, UntouchedInv, Requested
<1> QED BY <1>1, <1>3, <1>4, <1>5, <1>7 DEF IInv

\* Every step keeps the types and the counter right.
LEMMA StepType ==
    ASSUME TypeOK, CountInv, Next
    PROVE  TypeOK' /\ CountInv'
<1> USE NotAnAnswer, ErrorNumbers, WantedIsFinite, PendingIsFinite,
        ItemsListJobAssumption
<1>1. CASE Start
  <2> USE <1>1 DEF Start
  <2>1. Pending = {} /\ Pending' = Wanted /\ Wanted' = Wanted
    <3>1. Wanted' = Wanted BY DEF Wanted
    <3>2. Pending = {} BY DEF CountInv
    <3>3. Pending' = Wanted
      BY DEF Pending, TypeOK
    <3> QED BY <3>1, <3>2, <3>3
  <2>2. mSubJobCount = 0 /\ results = 0
    BY <2>1, FS_EmptySet DEF CountInv, CountsPending
  <2>3. TypeOK'
    BY <2>2 DEF TypeOK, CacheTypeOK, cacheVars, Present
  <2>4. CountInv'
    BY <2>1, <2>2 DEF CountInv, CountsPending
  <2> QED BY <2>3, <2>4
<1>2. ASSUME NEW q \in Queries, ServerLists(q)
      PROVE  TypeOK' /\ CountInv'
  <2> USE <1>2 DEF ServerLists, callerVars, jobVars, cacheVars
  <2>1. PICK shown \in SUBSET Present :
            /\ inFlight' = [inFlight EXCEPT ![q] =
                   Answer(FALSE, 207,
                          [id \in Ids |-> IF id \in shown THEN server[id]
                                                          ELSE NotListed])]
            /\ touched' = touched \cup ((Matching(q) \cap Present) \ shown)
            /\ missing' = missing \cup (Matching(q) \ shown)
    OBVIOUS
  <2>2. Answer(FALSE, 207, [id \in Ids |-> IF id \in shown THEN server[id]
                                           ELSE NotListed]) \in Answers
    BY <2>1 DEF Answer, Answers, Listing, Present, TypeOK
  <2>3. Pending' = Pending /\ Wanted' = Wanted
    BY <2>1, <2>2, AnsweredStaysPending DEF Wanted
  <2>4. TypeOK'
    BY <2>1, <2>2 DEF TypeOK, CacheTypeOK, Matching, Requested
  <2>5. CountInv'
    BY <2>3 DEF CountInv, CountsPending
  <2> QED BY <2>4, <2>5
<1>3. ASSUME NEW q \in Queries, ServerFails(q)
      PROVE  TypeOK' /\ CountInv'
  <2> USE <1>3 DEF ServerFails, callerVars, jobVars, cacheVars, historyVars
  <2>1. PICK status \in FailCodes :
            inFlight' = [inFlight EXCEPT ![q] = Answer(TRUE, status, Nothing)]
    OBVIOUS
  <2>2. Answer(TRUE, status, Nothing) \in Answers
    BY DEF Answer, Answers, Listing, Nothing
  <2>3. Pending' = Pending /\ Wanted' = Wanted
    BY <2>1, <2>2, AnsweredStaysPending DEF Wanted
  <2>4. TypeOK'
    BY <2>1, <2>2 DEF TypeOK, CacheTypeOK
  <2>5. CountInv'
    BY <2>3 DEF CountInv, CountsPending
  <2> QED BY <2>4, <2>5
<1>4. ASSUME NEW q \in Queries, DavJobFinished(q)
      PROVE  TypeOK' /\ CountInv'
  <2> DEFINE reply == inFlight[q]
  <2> USE <1>4 DEF DavJobFinished, callerVars, cacheVars
  <2>1. /\ reply \in Answers
        /\ reply.status \in Nat
        /\ reply.listed \in Listing
    BY DEF Answers
  <2>2. /\ Pending' = Pending \ {q} /\ q \in Pending
        /\ Wanted' = Wanted
    BY <2>1 DEF Pending, Wanted, TypeOK
  <2>3. /\ Cardinality(Pending') = mSubJobCount - 1
        /\ mSubJobCount - 1 \in Nat
        /\ mSubJobCount - 1 = 0 <=> Pending' = {}
    <3>1. /\ Cardinality(Pending \ {q}) = Cardinality(Pending) - 1
          /\ IsFiniteSet(Pending \ {q})
      BY <2>2, FS_RemoveElement
    <3>2. /\ Cardinality(Pending \ {q}) \in Nat
          /\ Cardinality(Pending \ {q}) = 0 <=> Pending \ {q} = {}
      BY <3>1, FS_CardinalityType, FS_EmptySet
    <3> QED BY <2>2, <3>1, <3>2 DEF CountInv, CountsPending
  <2>4. CountInv'
    BY <2>2, <2>3 DEF CountInv, CountsPending, SubJobDone
  <2>5. /\ mItems' \subseteq Item /\ mSeenUrls' \subseteq Ids
        /\ mChangedItems' \subseteq mItems'
        /\ error' \in ErrorNumber /\ latestResponseCode' \in Nat
        /\ failed' \subseteq Queries
    <3>1. CASE RequestFailed(reply.netError, reply.status)
      BY <2>1, <3>1 DEF TakeFailure, TypeOK
    <3>2. CASE ~RequestFailed(reply.netError, reply.status)
      <4>1. TakeListing(q, reply.listed)
        BY <3>2
      <4>2. NewItems(q, reply.listed) \subseteq Item
        BY <2>1, NewItemsType
      <4>3. \A item \in NewItems(q, reply.listed) : item.id \in Ids
        BY <2>1, NewItemsType
      <4> QED BY <4>1, <4>2, <4>3 DEF TakeListing, TypeOK
    <3> QED BY <3>1, <3>2
  <2>6. mDeletedItems' \subseteq Ids
    BY DEF NotSeen, Urls
  <2>7. inFlight' \in [Queries -> {Idle, Sent} \cup Answers]
    BY DEF TypeOK
  <2>8. mSubJobCount' \in Nat /\ results' \in Nat
    BY <2>3 DEF SubJobDone, TypeOK
  <2>9. TypeOK'
    BY <2>5, <2>6, <2>7, <2>8 DEF TypeOK, CacheTypeOK
  <2> QED BY <2>4, <2>9
<1>5. ASSUME NEW id \in Ids, OtherClient(id)
      PROVE  TypeOK' /\ CountInv'
  <2> USE <1>5 DEF OtherClient, callerVars, cacheVars, jobVars
  <2>1. Pending' = Pending /\ Wanted' = Wanted
    BY DEF Pending, Wanted
  <2>2. TypeOK'
    BY DEF TypeOK, CacheTypeOK
  <2> QED BY <2>1, <2>2 DEF CountInv, CountsPending
<1>6. ASSUME NEW id \in Ids, CacheOwner(id)
      PROVE  TypeOK' /\ CountInv'
  <2> USE <1>6 DEF CacheOwner, callerVars, jobVars
  <2>1. Pending' = Pending /\ Wanted' = Wanted
    BY DEF Pending, Wanted
  <2>2. CacheTypeOK' /\ touched' \subseteq Ids
    BY DEF TypeOK, CacheTypeOK, SetEtag, SetEtagInternal, RemoveEtag,
           MarkAsChanged
  <2>3. TypeOK'
    BY <2>2 DEF TypeOK
  <2> QED BY <2>1, <2>3 DEF CountInv, CountsPending
<1>7. CASE Finished
  BY <1>7 DEF Finished, vars, cacheVars, callerVars, jobVars, historyVars,
              TypeOK, CacheTypeOK, CountInv, CountsPending, Pending, Wanted
<1> QED BY <1>1, <1>2, <1>3, <1>4, <1>5, <1>6, <1>7 DEF Next

(***************************************************************************)
(* What each action does to the requests in flight.                        *)
(***************************************************************************)

LEMMA StartEffect ==
    ASSUME TypeOK, CountInv, Start
    PROVE  /\ Requested' = Requested /\ Wanted' = Wanted
           /\ \A q \in Queries : ~Readable(q)' /\ ~Handled(q)'
           /\ \A q \in Queries : ~Handled(q)
<1>1. Requested' = Requested /\ Wanted' = Wanted
  BY DEF Start, Requested, Wanted
<1>2. \A q \in Queries : inFlight'[q] = IF q \in Wanted THEN Sent ELSE Idle
  BY DEF Start
<1> QED BY <1>1, <1>2, NotAnAnswer DEF Readable, Handled, Start

LEMMA ServerListsEffect ==
    ASSUME TypeOK, NEW q \in Queries, ServerLists(q)
    PROVE  \E shown \in SUBSET Present :
              /\ \A r \in Queries \ {q} :
                    inFlight'[r] = inFlight[r] /\ (Readable(r)' <=> Readable(r))
              /\ \A r \in Queries : Handled(r)' <=> Handled(r)
              /\ ~Handled(q)
              /\ \A id \in Ids : inFlight'[q].listed[id] =
                    IF id \in shown THEN server[id] ELSE NotListed
              /\ touched' = touched \cup ((Matching(q) \cap Present) \ shown)
              /\ missing' = missing \cup (Matching(q) \ shown)
              /\ Requested' = Requested
<1> DEFINE listed(shown) ==
              [id \in Ids |-> IF id \in shown THEN server[id] ELSE NotListed]
<1>1. PICK shown \in SUBSET Present :
          /\ inFlight' = [inFlight EXCEPT ![q] = Answer(FALSE, 207, listed(shown))]
          /\ touched' = touched \cup ((Matching(q) \cap Present) \ shown)
          /\ missing' = missing \cup (Matching(q) \ shown)
  BY DEF ServerLists
<1>2. /\ Answer(FALSE, 207, listed(shown)) \in Answers
      /\ Answer(FALSE, 207, listed(shown)).listed = listed(shown)
  BY DEF Answer, Answers, Listing, Present, TypeOK
<1>3. /\ inFlight[q] = Sent /\ started' = started
      /\ Wanted' = Wanted /\ Requested' = Requested
  BY DEF ServerLists, callerVars, Wanted, Requested
<1>4. /\ \A r \in Queries \ {q} : inFlight'[r] = inFlight[r]
      /\ inFlight'[q] = Answer(FALSE, 207, listed(shown))
  BY <1>1 DEF TypeOK
<1>5. inFlight'[q] # Idle /\ inFlight[q] # Idle
  BY <1>2, <1>3, <1>4, NotAnAnswer
<1>6. \A r \in Queries : Handled(r)' <=> Handled(r)
  BY <1>3, <1>4, <1>5 DEF Handled
<1>7. ~Handled(q)
  BY <1>5 DEF Handled
<1>8. \A r \in Queries \ {q} : Readable(r)' <=> Readable(r)
  BY <1>4 DEF Readable
<1>9. \A id \in Ids : inFlight'[q].listed[id] =
          IF id \in shown THEN server[id] ELSE NotListed
  <2>1. inFlight'[q].listed = listed(shown)
    <3> HIDE DEF listed
    <3> QED BY <1>2, <1>4
  <2> QED BY <2>1
<1> QED BY <1>1, <1>3, <1>4, <1>6, <1>7, <1>8, <1>9

LEMMA ServerFailsEffect ==
    ASSUME TypeOK, NEW q \in Queries, ServerFails(q)
    PROVE  /\ \A r \in Queries \ {q} :
                 inFlight'[r] = inFlight[r] /\ (Readable(r)' <=> Readable(r))
           /\ \A r \in Queries : Handled(r)' <=> Handled(r)
           /\ ~Readable(q)'
           /\ Requested' = Requested
<1>1. PICK status \in FailCodes :
          inFlight' = [inFlight EXCEPT ![q] = Answer(TRUE, status, Nothing)]
  BY DEF ServerFails
<1>2. /\ Answer(TRUE, status, Nothing) \in Answers
      /\ Answer(TRUE, status, Nothing).netError
  BY ItemsListJobAssumption DEF Answer, Answers, Listing, Nothing
<1>3. /\ inFlight[q] = Sent /\ started' = started
      /\ Wanted' = Wanted /\ Requested' = Requested
  BY DEF ServerFails, callerVars, Wanted, Requested
<1>4. /\ \A r \in Queries \ {q} : inFlight'[r] = inFlight[r]
      /\ inFlight'[q] = Answer(TRUE, status, Nothing)
  BY <1>1 DEF TypeOK
<1>5. inFlight'[q] # Idle /\ inFlight[q] # Idle
  BY <1>2, <1>3, <1>4, NotAnAnswer
<1>6. \A r \in Queries : Handled(r)' <=> Handled(r)
  BY <1>3, <1>4, <1>5 DEF Handled
<1>7. \A r \in Queries \ {q} : Readable(r)' <=> Readable(r)
  BY <1>4 DEF Readable
<1>8. ~Readable(q)'
  BY <1>2, <1>4 DEF Readable, RequestFailed
<1> QED BY <1>3, <1>4, <1>6, <1>7, <1>8

LEMMA DavJobFinishedEffect ==
    ASSUME TypeOK, CountInv, NEW q \in Queries, DavJobFinished(q)
    PROVE  /\ started /\ q \in Wanted /\ q \in Pending
           /\ Wanted' = Wanted /\ Requested' = Requested
           /\ inFlight[q] \in Answers /\ inFlight[q].listed \in Listing
           /\ \A r \in Queries \ {q} :
                 inFlight'[r] = inFlight[r] /\ (Readable(r)' <=> Readable(r))
           /\ ~Readable(q)' /\ ~Handled(q)
           /\ \A r \in Queries : Handled(r)' <=> r = q \/ Handled(r)
           /\ \/ Readable(q) /\ TakeListing(q, inFlight[q].listed)
              \/ ~Readable(q) /\ TakeFailure(q, inFlight[q].status)
<1>1. inFlight[q] \in Answers /\ inFlight[q].listed \in Listing
  BY DEF DavJobFinished, Answers
<1>2. q \in Pending
  BY <1>1, NotAnAnswer DEF Pending
<1>3. started /\ q \in Wanted
  BY <1>2 DEF CountInv
<1>4. started' = started /\ Wanted' = Wanted /\ Requested' = Requested
  BY DEF DavJobFinished, callerVars, Wanted, Requested
<1>5. /\ \A r \in Queries \ {q} : inFlight'[r] = inFlight[r]
      /\ inFlight'[q] = Idle
  BY DEF DavJobFinished, TypeOK
<1>6. \A r \in Queries \ {q} : Readable(r)' <=> Readable(r)
  BY <1>5 DEF Readable
<1>7. ~Readable(q)' /\ ~Handled(q)
  BY <1>1, <1>5, NotAnAnswer DEF Readable, Handled
<1>8. \A r \in Queries : Handled(r)' <=> r = q \/ Handled(r)
  BY <1>3, <1>4, <1>5 DEF Handled
<1>9. \/ Readable(q) /\ TakeListing(q, inFlight[q].listed)
      \/ ~Readable(q) /\ TakeFailure(q, inFlight[q].status)
  BY <1>1 DEF DavJobFinished, Readable
<1> QED BY <1>1, <1>2, <1>3, <1>4, <1>5, <1>6, <1>7, <1>8, <1>9

\* The server, other clients and the cache's owner leave the job alone.
LEMMA OthersEffect ==
    ASSUME NEW id \in Ids, OtherClient(id) \/ CacheOwner(id)
    PROVE  /\ UNCHANGED <<inFlight, jobVars, callerVars, failed>>
           /\ started
           /\ Requested' = Requested /\ Wanted' = Wanted /\ Pending' = Pending
           /\ \A q \in Queries : /\ Handled(q)' <=> Handled(q)
                                 /\ Readable(q)' <=> Readable(q)
<1>1. /\ UNCHANGED <<inFlight, jobVars, callerVars, failed>>
      /\ started
  <2>1. CASE OtherClient(id) BY <2>1 DEF OtherClient
  <2>2. CASE CacheOwner(id) BY <2>2 DEF CacheOwner
  <2> QED BY <2>1, <2>2
<1>2. Requested' = Requested /\ Wanted' = Wanted /\ Pending' = Pending
  BY <1>1 DEF callerVars, Requested, Wanted, Pending
<1>3. \A q \in Queries : /\ Handled(q)' <=> Handled(q)
                         /\ Readable(q)' <=> Readable(q)
  BY <1>1, <1>2 DEF callerVars, Handled, Readable
<1> QED BY <1>1, <1>2, <1>3

\* What is left unchanged when nothing changes.
LEMMA Stutter ==
    ASSUME UNCHANGED vars, IInv
    PROVE  IInv'
BY DEF vars, cacheVars, callerVars, jobVars, historyVars, IInv, TypeOK,
       CacheTypeOK, CountInv, CountsPending, Pending, Wanted, Requested,
       FailInv, ListedOnceAndNotDeleted, SeenItems, MissingInv, UntouchedInv,
       Handled, Readable, Contains

(***************************************************************************)
(* The other parts of IInv, one lemma each.                                *)
(***************************************************************************)

LEMMA StepFail ==
    ASSUME TypeOK, CountInv, FailInv, Next
    PROVE  FailInv'
<1> USE ErrorNumbers
<1>1. CASE Start
  BY <1>1, StartEffect DEF Start, FailInv, TypeOK
<1>2. ASSUME NEW q \in Queries, ServerLists(q)
      PROVE  FailInv'
  <2>1. /\ \A r \in Queries : Handled(r)' <=> Handled(r)
        /\ Wanted' = Wanted
    BY <1>2, ServerListsEffect DEF ServerLists, callerVars, Wanted
  <2> QED BY <1>2, <2>1 DEF FailInv, ServerLists, callerVars, jobVars
<1>3. ASSUME NEW q \in Queries, ServerFails(q)
      PROVE  FailInv'
  <2>1. /\ \A r \in Queries : Handled(r)' <=> Handled(r)
        /\ Wanted' = Wanted
    BY <1>3, ServerFailsEffect DEF ServerFails, callerVars, Wanted
  <2> QED BY <1>3, <2>1 DEF FailInv, ServerFails, callerVars, jobVars, historyVars
<1>4. ASSUME NEW q \in Queries, DavJobFinished(q)
      PROVE  FailInv'
  <2>1. /\ started' = started /\ Wanted # {}
        /\ Wanted' = Wanted
        /\ \A r \in Queries : Handled(r)' <=> r = q \/ Handled(r)
    BY <1>4, DavJobFinishedEffect DEF DavJobFinished, callerVars
  <2>2. CASE TakeListing(q, inFlight[q].listed)
    BY <2>1, <2>2 DEF TakeListing, FailInv
  <2>3. CASE TakeFailure(q, inFlight[q].status)
    BY <2>1, <2>3 DEF TakeFailure, FailInv
  <2> QED BY <1>4, <2>2, <2>3, DavJobFinishedEffect
<1>5. ASSUME NEW id \in Ids, OtherClient(id) \/ CacheOwner(id)
      PROVE  FailInv'
  BY <1>5, OthersEffect DEF FailInv, jobVars, callerVars
<1>6. CASE Finished
  BY <1>6 DEF Finished, vars, callerVars, jobVars, historyVars, FailInv,
              Handled, Wanted
<1> QED BY <1>1, <1>2, <1>3, <1>4, <1>5, <1>6 DEF Next

LEMMA StepListed ==
    ASSUME TypeOK, CountInv, ListedOnceAndNotDeleted, Next
    PROVE  ListedOnceAndNotDeleted'
<1>1. ASSUME UNCHANGED <<mItems, mSeenUrls, mDeletedItems>>
      PROVE  ListedOnceAndNotDeleted'
  BY <1>1 DEF ListedOnceAndNotDeleted, SeenItems
<1>2. ASSUME NEW q \in Queries, DavJobFinished(q)
      PROVE  ListedOnceAndNotDeleted'
  <2>1. mDeletedItems' \cap mSeenUrls' = {}
    BY <1>2 DEF DavJobFinished, NotSeen
  <2>2. CASE TakeFailure(q, inFlight[q].status)
    BY <2>1, <2>2 DEF TakeFailure, ListedOnceAndNotDeleted, SeenItems
  <2>3. CASE TakeListing(q, inFlight[q].listed)
    <3> DEFINE new == NewItems(q, inFlight[q].listed)
    <3>1. /\ mItems' = mItems \cup new
          /\ mSeenUrls' = mSeenUrls \cup {item.id : item \in new}
      BY <2>3 DEF TakeListing
    <3>2. /\ \A item \in new : item.id \in Ids \ mSeenUrls
          /\ \A a, b \in new : a.id = b.id => a = b
      BY <1>2, DavJobFinishedEffect, NewItemsType
    <3> HIDE DEF new
    <3>3. SeenItems' = mSeenUrls'
      BY <3>1 DEF SeenItems, ListedOnceAndNotDeleted
    <3>4. \A a, b \in mItems' : a.id = b.id => a = b
      <4>1. \A item \in mItems : item.id \in mSeenUrls
        BY DEF SeenItems, ListedOnceAndNotDeleted
      <4> QED BY <3>1, <3>2, <4>1 DEF ListedOnceAndNotDeleted
    <3> QED BY <2>1, <3>3, <3>4 DEF ListedOnceAndNotDeleted
  <2> QED BY <1>2, <2>2, <2>3, DavJobFinishedEffect
<1>3. CASE Start
  BY <1>1, <1>3 DEF Start
<1>4. ASSUME NEW q \in Queries, ServerLists(q) \/ ServerFails(q)
      PROVE  ListedOnceAndNotDeleted'
  BY <1>1, <1>4 DEF ServerLists, ServerFails, jobVars
<1>5. ASSUME NEW id \in Ids, OtherClient(id) \/ CacheOwner(id)
      PROVE  ListedOnceAndNotDeleted'
  BY <1>1, <1>5, OthersEffect DEF jobVars
<1>6. CASE Finished
  BY <1>1, <1>6 DEF Finished, vars, jobVars
<1> QED BY <1>2, <1>3, <1>4, <1>5, <1>6 DEF Next

LEMMA StepMissing ==
    ASSUME TypeOK, CountInv, MissingInv, Next
    PROVE  MissingInv'
<1> USE ItemsListJobAssumption
<1> USE DEF MissingInv
<1>0. \A id \in Requested : id \in Ids /\ TypeOf[id] \in Queries
  BY DEF Requested
<1>1. CASE Start
  <2>1. missing' = Ids \ Present /\ server' = server
    BY <1>1 DEF Start
  <2> QED BY <1>0, <1>1, <2>1, StartEffect DEF Present
<1>2. ASSUME NEW q \in Queries, ServerLists(q)
      PROVE  MissingInv'
  <2>1. started' = started /\ server' = server /\ failed' = failed
        /\ mSeenUrls' = mSeenUrls
    BY <1>2 DEF ServerLists, callerVars, jobVars
  <2>2. PICK shown \in SUBSET Present :
              /\ \A r \in Queries \ {q} :
                    inFlight'[r] = inFlight[r] /\ (Readable(r)' <=> Readable(r))
              /\ \A r \in Queries : Handled(r)' <=> Handled(r)
              /\ \A id \in Ids : inFlight'[q].listed[id] =
                    IF id \in shown THEN server[id] ELSE NotListed
              /\ missing' = missing \cup (Matching(q) \ shown)
              /\ Requested' = Requested
    BY <1>2, ServerListsEffect
  <2>3. \A id \in Requested \ missing' : id \in Requested \ missing
                                         /\ (TypeOf[id] = q => id \in shown)
    BY <2>2 DEF Matching
  <2>4. \A id \in shown : server[id] # NotListed
    BY DEF Present, TypeOK
  <2> QED BY <1>0, <2>1, <2>2, <2>3, <2>4
<1>3. ASSUME NEW q \in Queries, ServerFails(q)
      PROVE  MissingInv'
  <2>1. UNCHANGED <<started, server, failed, mSeenUrls, missing>>
    BY <1>3 DEF ServerFails, callerVars, jobVars, historyVars
  <2> QED BY <1>0, <1>3, <2>1, ServerFailsEffect
<1>4. ASSUME NEW q \in Queries, DavJobFinished(q)
      PROVE  MissingInv'
  <2>1. UNCHANGED <<started, server, missing>> /\ mSeenUrls \subseteq mSeenUrls'
        /\ failed \subseteq failed'
    BY <1>4 DEF DavJobFinished, callerVars, TakeListing, TakeFailure
  <2>2. ASSUME NEW id \in Requested \ missing, TypeOf[id] = q, started
        PROVE  q \in failed' \/ id \in mSeenUrls'
    <3>1. CASE ~Readable(q)
      BY <1>4, <3>1, DavJobFinishedEffect DEF TakeFailure
    <3>2. CASE Readable(q)
      <4> DEFINE new == NewItems(q, inFlight[q].listed)
      <4>1. mSeenUrls' = mSeenUrls \cup {item.id : item \in new}
        BY <1>4, <3>2, DavJobFinishedEffect DEF TakeListing
      <4>2. inFlight[q].listed[id] # NotListed /\ id \in Ids
        BY <1>0, <2>2, <3>2
      <4>3. id \notin mSeenUrls => \E item \in new : item.id = id
        BY <1>4, <4>2, NewItemsType, DavJobFinishedEffect
      <4> HIDE DEF new
      <4> QED BY <4>1, <4>3
    <3> QED BY <3>1, <3>2
  <2>3. /\ Requested' = Requested
        /\ \A r \in Queries \ {q} :
              inFlight'[r] = inFlight[r] /\ (Readable(r)' <=> Readable(r))
        /\ ~Readable(q)'
        /\ \A r \in Queries : Handled(r)' <=> r = q \/ Handled(r)
    BY <1>4, DavJobFinishedEffect
  <2> QED BY <1>0, <2>1, <2>2, <2>3
<1>5. ASSUME NEW id \in Ids, OtherClient(id)
      PROVE  MissingInv'
  <2>1. \A i \in Requested \ missing' : /\ i \in Requested \ missing
                                        /\ server'[i] # Absent
    BY <1>0, <1>5, OthersEffect DEF OtherClient, TypeOK
  <2> QED BY <1>0, <1>5, <2>1, OthersEffect DEF jobVars, callerVars
<1>6. ASSUME NEW id \in Ids, CacheOwner(id)
      PROVE  MissingInv'
  <2>1. server' = server /\ missing' = missing
    BY <1>6 DEF CacheOwner
  <2> QED BY <1>0, <1>6, <2>1, OthersEffect DEF jobVars, callerVars
<1>7. CASE Finished
  BY <1>7 DEF Finished, vars, cacheVars, callerVars, jobVars, historyVars,
              Requested, Handled, Readable, Wanted
<1> QED BY <1>1, <1>2, <1>3, <1>4, <1>5, <1>6, <1>7 DEF Next

LEMMA StepUntouched ==
    ASSUME TypeOK, CountInv, ListedOnceAndNotDeleted, UntouchedInv, Next
    PROVE  UntouchedInv'
<1> USE ItemsListJobAssumption, EtagCacheAssumption
<1> USE DEF UntouchedInv
<1>0. \A id \in Requested : id \in Ids /\ TypeOf[id] \in Queries
  BY DEF Requested
<1>1. CASE Start
  <2>1. UNCHANGED <<server, mItems, mChangedItems, mCache, touched>>
    BY <1>1 DEF Start, cacheVars
  <2> QED BY <1>0, <1>1, <2>1, StartEffect
<1>2. ASSUME NEW q \in Queries, ServerLists(q)
      PROVE  UntouchedInv'
  <2>1. UNCHANGED <<server, mCache, failed, mItems, mSeenUrls, mChangedItems,
                    mDeletedItems>>
    BY <1>2 DEF ServerLists, cacheVars, jobVars
  <2>2. PICK shown \in SUBSET Present :
              /\ \A r \in Queries \ {q} :
                    inFlight'[r] = inFlight[r] /\ (Readable(r)' <=> Readable(r))
              /\ \A r \in Queries : Handled(r)' <=> Handled(r)
              /\ \A id \in Ids : inFlight'[q].listed[id] =
                    IF id \in shown THEN server[id] ELSE NotListed
              /\ touched' = touched \cup ((Matching(q) \cap Present) \ shown)
              /\ Requested' = Requested
    BY <1>2, ServerListsEffect
  <2>3. \A id \in Requested \ touched' :
            /\ id \in Requested \ touched
            /\ TypeOf[id] = q /\ server[id] # Absent => id \in shown
    BY <1>0, <2>2 DEF Matching, Present
  <2> QED BY <1>0, <2>1, <2>2, <2>3 DEF Contains
<1>3. ASSUME NEW q \in Queries, ServerFails(q)
      PROVE  UntouchedInv'
  <2>1. UNCHANGED <<server, mCache, failed, mItems, mSeenUrls, mChangedItems,
                    mDeletedItems, touched>>
    BY <1>3 DEF ServerFails, cacheVars, jobVars, historyVars
  <2> QED BY <1>0, <1>3, <2>1, ServerFailsEffect DEF Contains
<1>4. ASSUME NEW q \in Queries, DavJobFinished(q)
      PROVE  UntouchedInv'
  <2> DEFINE new == NewItems(q, inFlight[q].listed)
  <2>1. UNCHANGED <<server, mCache, touched>>
    BY <1>4 DEF DavJobFinished, cacheVars
  <2>2. /\ Requested' = Requested
        /\ \A r \in Queries \ {q} :
              inFlight'[r] = inFlight[r] /\ (Readable(r)' <=> Readable(r))
        /\ ~Readable(q)'
        /\ \A r \in Queries : Handled(r)' <=> r = q \/ Handled(r)
    BY <1>4, DavJobFinishedEffect
  <2>3. CASE ~Readable(q)
    <3>1. UNCHANGED <<mItems, mSeenUrls, mChangedItems>>
          /\ failed' = failed \cup {q}
      BY <1>4, <2>3, DavJobFinishedEffect DEF TakeFailure
    <3>2. mDeletedItems' = {id \in Ids : mCache[id] # NoEntry /\ id \notin mSeenUrls}
      BY <1>4, <3>1 DEF DavJobFinished, NotSeen, Urls, Contains
    <3> QED BY <1>0, <2>1, <2>2, <3>1, <3>2 DEF Contains
  <2>4. CASE Readable(q)
    <3>1. /\ mItems' = mItems \cup new
          /\ mSeenUrls' = mSeenUrls \cup {item.id : item \in new}
          /\ mChangedItems' = mChangedItems
                \cup {item \in new : EtagChanged(item.id, item.etag)}
          /\ failed' = failed
      BY <1>4, <2>4, DavJobFinishedEffect DEF TakeListing
    <3>2. mDeletedItems' = {id \in Ids : mCache[id] # NoEntry /\ id \notin mSeenUrls'}
      BY <1>4 DEF DavJobFinished, NotSeen, Urls, Contains
    <3>3. /\ \A item \in new : /\ item.id \in Ids \ mSeenUrls
                               /\ item.etag = inFlight[q].listed[item.id]
                               /\ item.etag \in Etags
          /\ \A id \in Ids \ mSeenUrls : inFlight[q].listed[id] # NotListed =>
                \E item \in new : item.id = id
      BY <1>4, DavJobFinishedEffect, NewItemsType
    <3> HIDE DEF new
    <3>4. \A item \in new : EtagChanged(item.id, item.etag)
                                <=> mCache[item.id] # item.etag
      BY <3>3 DEF EtagChanged, Contains
    <3>5. \A item \in mItems : item.id \in mSeenUrls
      BY DEF ListedOnceAndNotDeleted, SeenItems
    <3>6. mChangedItems \subseteq mItems
      BY DEF TypeOK
    <3>7. \A item \in mItems' :
             \/ item \in mItems /\ (item \in mChangedItems' <=> item \in mChangedItems)
             \/ /\ item \in new
                /\ item \in mChangedItems' <=> mCache[item.id] # item.etag
      BY <3>1, <3>3, <3>4, <3>5, <3>6
    <3>8. ASSUME NEW id \in Requested \ touched, NEW item \in mItems', item.id = id
          PROVE  /\ item.etag = server[id]
                 /\ item \in mChangedItems' <=> mCache[id] # server[id]
      <4>1. CASE item \in mItems /\ (item \in mChangedItems' <=> item \in mChangedItems)
        BY <3>8, <4>1
      <4>2. CASE item \in new /\ (item \in mChangedItems' <=> mCache[item.id] # item.etag)
        <5>1. item.etag = inFlight[q].listed[id] /\ item.etag # NotListed
          BY <3>3, <3>8, <4>2
        <5>2. item.etag = server[id]
          BY <2>4, <3>8, <5>1
        <5> QED BY <3>8, <4>2, <5>2
      <4> QED BY <3>7, <4>1, <4>2
    <3>9. ASSUME NEW id \in Requested \ touched, TypeOf[id] = q, server[id] # Absent
          PROVE  id \in mSeenUrls'
      <4>1. id \in Ids /\ inFlight[q].listed[id] = server[id]
        BY <1>0, <2>4, <3>9
      <4>2. server[id] # NotListed
        BY <3>9, <4>1 DEF TypeOK
      <4>3. id \notin mSeenUrls => \E item \in new : item.id = id
        BY <3>3, <4>1, <4>2
      <4> QED BY <3>1, <4>3
    <3>10. mSeenUrls \subseteq mSeenUrls'
      BY <3>1
    <3>11. failed' = failed
      BY <3>1
    <3>12. SUFFICES ASSUME NEW id \in Requested \ touched
           PROVE  /\ \A r \in Queries : Readable(r)' =>
                        inFlight'[r].listed[id] \in {NotListed, server[id]}
                  /\ server[id] # Absent =>
                        /\ Readable(TypeOf[id])' =>
                              inFlight'[TypeOf[id]].listed[id] = server[id]
                        /\ Handled(TypeOf[id])' =>
                              TypeOf[id] \in failed \/ id \in mSeenUrls'
                  /\ \A item \in mItems' : item.id = id =>
                        /\ item.etag = server[id]
                        /\ item \in mChangedItems' <=> mCache[id] # server[id]
                  /\ id \in mDeletedItems' <=> mCache[id] # NoEntry
                                               /\ id \notin mSeenUrls'
      BY <1>0, <2>1, <2>2, <3>11 DEF Contains
    <3>13. \A r \in Queries : Readable(r)' =>
              r # q /\ inFlight'[r] = inFlight[r] /\ Readable(r)
      BY <2>2
    <3>14. Handled(TypeOf[id])' => TypeOf[id] = q \/ Handled(TypeOf[id])
      BY <1>0, <2>2
    <3>15. id \in Ids /\ TypeOf[id] \in Queries
      BY <1>0
    <3> QED BY <3>2, <3>8, <3>9, <3>10, <3>13, <3>14, <3>15
  <2> QED BY <2>3, <2>4
<1>5. ASSUME NEW id \in Ids, OtherClient(id)
      PROVE  UntouchedInv'
  <2>1. /\ mCache' = mCache
        /\ touched' = touched \cup {id}
        /\ \A i \in Ids \ {id} : server'[i] = server[i]
    BY <1>5 DEF OtherClient, cacheVars, TypeOK
  <2> QED BY <1>0, <1>5, <2>1, OthersEffect DEF jobVars, Contains
<1>6. ASSUME NEW id \in Ids, CacheOwner(id)
      PROVE  UntouchedInv'
  <2>1. /\ server' = server
        /\ touched \subseteq touched'
        /\ \A i \in Ids \ touched' : mCache'[i] = mCache[i]
    BY <1>6 DEF CacheOwner, SetEtag, SetEtagInternal, RemoveEtag, MarkAsChanged,
                TypeOK, CacheTypeOK
  <2> QED BY <1>0, <1>6, <2>1, OthersEffect DEF jobVars, Contains
<1>7. CASE Finished
  BY <1>7 DEF Finished, vars, cacheVars, callerVars, jobVars, historyVars,
              Requested, Handled, Readable, Wanted, Contains
<1> QED BY <1>1, <1>2, <1>3, <1>4, <1>5, <1>6, <1>7 DEF Next

(***************************************************************************)
(* The theorems.                                                           *)
(***************************************************************************)

\* IInv is an invariant: it holds before start() is called, and no answer,
\* change on the server or change of the cache breaks it.
THEOREM Invariance == Spec => []IInv
<1>1. Init => IInv
  BY InitIInv
<1>2. IInv /\ [Next]_vars => IInv'
  BY StepType, StepFail, StepListed, StepMissing, StepUntouched, Stutter
     DEF IInv
<1> QED BY <1>1, <1>2, PTL DEF Spec

\* Every variable stays in its type; in particular the unsigned sub-job
\* counter never wraps around.
THEOREM TypeCorrectness == Spec => []TypeOK
BY Invariance, PTL DEF IInv

\* The counter that davJobFinished() counts down is always the number of
\* answers that are still to come.
THEOREM CounterIsPending == Spec => []CountsPending
<1>1. IInv => CountsPending
  BY DEF IInv, CountInv
<1> QED BY Invariance, <1>1, PTL

\* No item is listed twice, or both listed and deleted, whatever servers
\* answer and however often they repeat an item.
THEOREM NeverListedAndDeleted == Spec => []ListedOnceAndNotDeleted
BY Invariance, PTL DEF IInv

\* A finished job reports an error exactly if one of its requests failed or
\* it had nothing to ask, in whatever order the answers came.
THEOREM FailuresAreReported == Spec => []FailureReported
<1>1. IInv => FailureReported
  BY DEF IInv, CountInv, FailInv, FailureReported, Done
<1> QED BY Invariance, <1>1, PTL

\* Nothing that was on the server throughout, and in every answer it
\* belongs in, is ever reported as deleted by a job that succeeds.
THEOREM DeletionsAreReal == Spec => []DeletedWasMissing
<1>1. ASSUME IInv PROVE DeletedWasMissing
  <2> SUFFICES ASSUME Done, error = NO_ERR,
                      NEW id \in Requested, id \notin missing
               PROVE  id \notin mDeletedItems
    BY DEF DeletedWasMissing
  <2>1. /\ started /\ Pending = {} /\ failed = {}
        /\ TypeOf[id] \in Queries /\ TypeOf[id] \in Wanted
    BY <1>1, ItemsListJobAssumption
       DEF IInv, CountInv, FailInv, Done, Requested, Wanted
  <2>2. Handled(TypeOf[id])
    BY <2>1 DEF Handled, Pending
  <2>3. id \in mSeenUrls
    BY <1>1, <2>1, <2>2 DEF IInv, MissingInv
  <2> QED BY <1>1, <2>3 DEF IInv, ListedOnceAndNotDeleted
<1> QED BY Invariance, <1>1, PTL

\* A job that succeeds classifies every item that nobody touched while it
\* ran exactly as comparing the server with the cache would.
THEOREM ClassificationIsExact == Spec => []ClassificationExact
<1>1. ASSUME IInv PROVE ClassificationExact
  <2> SUFFICES ASSUME Done, error = NO_ERR, NEW id \in Requested \ touched
               PROVE  /\ id \in ChangedIds <=> /\ server[id] # Absent
                                               /\ mCache[id] # server[id]
                      /\ id \in mDeletedItems <=> /\ server[id] = Absent
                                                  /\ mCache[id] # NoEntry
    BY DEF ClassificationExact
  <2>1. /\ started /\ Pending = {} /\ failed = {}
        /\ id \in Ids /\ TypeOf[id] \in Queries /\ TypeOf[id] \in Wanted
    BY <1>1, ItemsListJobAssumption
       DEF IInv, CountInv, FailInv, Done, Requested, Wanted
  <2>2. Handled(TypeOf[id])
    BY <2>1 DEF Handled, Pending
  <2>3. /\ server[id] # Absent => id \in mSeenUrls
        /\ \A item \in mItems : item.id = id =>
               /\ item.etag = server[id]
               /\ item \in mChangedItems <=> mCache[id] # server[id]
        /\ id \in mDeletedItems <=> mCache[id] # NoEntry /\ id \notin mSeenUrls
    BY <1>1, <2>1, <2>2 DEF IInv, UntouchedInv, Contains
  <2>4. /\ \A item \in mItems : item.etag # Absent
        /\ mChangedItems \subseteq mItems
    BY <1>1, ItemsListJobAssumption DEF IInv, TypeOK, Item
  <2>5. id \in mSeenUrls <=> \E item \in mItems : item.id = id
    BY <1>1 DEF IInv, ListedOnceAndNotDeleted, SeenItems
  <2>6. id \in mSeenUrls <=> server[id] # Absent
    BY <2>3, <2>4, <2>5
  <2>7. id \in ChangedIds <=> \E item \in mChangedItems : item.id = id
    BY DEF ChangedIds
  <2> QED BY <2>3, <2>4, <2>5, <2>6, <2>7
<1> QED BY Invariance, <1>1, PTL

\* The promise of ResultOnce, of every reachable state: the application has
\* heard of the job once if nothing it asked for is left, and never before.
THEOREM ResultComesOnce == Spec => []RO!ResultExactlyOnce
<1>1. IInv => RO!ResultExactlyOnce
  BY DEF IInv, CountInv, RO!ResultExactlyOnce
<1> QED BY <1>1, Invariance, PTL

\* The job implements ResultOnce with the set of unanswered queries: it
\* emits result() exactly once, in the handler of the last answer.
THEOREM Implementation == Spec => DeliversOneResult
<1>1. Init => RO!Init
  BY NotAnAnswer DEF Init, RO!Init, Pending
<1>2. IInv /\ [Next]_vars => [RO!Next]_(RO!vars)
  <2> SUFFICES ASSUME IInv, [Next]_vars
               PROVE  RO!Next \/ UNCHANGED RO!vars
    OBVIOUS
  <2> USE DEF RO!Next, RO!vars
  <2>0. TypeOK /\ CountInv
    BY DEF IInv
  <2>1. CASE Start
    <3>1. Pending' = Wanted /\ Pending' \in SUBSET Queries
      BY <2>0, <2>1, NotAnAnswer, WantedIsFinite DEF Start, Pending, TypeOK
    <3> QED BY <2>1, <3>1 DEF Start, RO!Start, RO!EmitWhenDone
  <2>2. ASSUME NEW q \in Queries, ServerLists(q) \/ ServerFails(q)
        PROVE  UNCHANGED RO!vars
    <3>1. inFlight[q] = Sent /\ \E r \in Answers : inFlight' = [inFlight EXCEPT ![q] = r]
      <4>1. CASE ServerLists(q)
        BY <2>0, <4>1 DEF ServerLists, Answer, Answers, Listing, Present, TypeOK
      <4>2. CASE ServerFails(q)
        BY <4>2, ItemsListJobAssumption
           DEF ServerFails, Answer, Answers, Listing, Nothing
      <4> QED BY <2>2, <4>1, <4>2
    <3>2. Pending' = Pending
      BY <2>0, <3>1, AnsweredStaysPending
    <3> QED BY <2>2, <3>2 DEF ServerLists, ServerFails, callerVars, jobVars
  <2>3. ASSUME NEW q \in Queries, DavJobFinished(q)
        PROVE  RO!Next
    <3>1. q \in Pending /\ Pending' = Pending \ {q}
      BY <2>0, <2>3, DavJobFinishedEffect, NotAnAnswer
         DEF DavJobFinished, Pending, TypeOK
    <3>2. mSubJobCount' = 0 <=> Pending' = {}
      <4>1. CountInv'
        BY <2>0, <2>3, StepType DEF Next
      <4>2. mSubJobCount' = Cardinality(Pending')
        BY <4>1 DEF CountInv, CountsPending
      <4>3. Cardinality(Pending') = 0 <=> Pending' = {}
        BY <3>1, PendingIsFinite, FS_Subset, FS_EmptySet
      <4> QED BY <4>2, <4>3
    <3>3. results' = IF Pending' = {} THEN results + 1 ELSE results
      BY <2>3, <3>2 DEF DavJobFinished, SubJobDone
    <3>4. Pending' \in {(Pending \ {q}) \cup more : more \in SUBSET Queries}
      <4>1. Pending' = (Pending \ {q}) \cup {}
        BY <3>1
      <4> QED BY <4>1
    <3>5. started' = started
      BY <2>3 DEF DavJobFinished, callerVars
    <3> QED BY <3>1, <3>3, <3>4, <3>5 DEF RO!Answer, RO!EmitWhenDone
  <2>4. ASSUME NEW id \in Ids, OtherClient(id) \/ CacheOwner(id)
        PROVE  UNCHANGED RO!vars
    BY <2>4, OthersEffect DEF jobVars, callerVars
  <2>5. CASE UNCHANGED vars
    BY <2>5 DEF vars, callerVars, jobVars, Pending
  <2> QED BY <2>1, <2>2, <2>3, <2>4, <2>5 DEF Next, Finished
<1> QED BY <1>1, <1>2, Invariance, PTL DEF Spec, DeliversOneResult, RO!Spec

=============================================================================
