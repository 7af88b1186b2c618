------------------------------ MODULE ItemJobs ------------------------------
(***************************************************************************)
(* The jobs that store, change, remove, move and fetch one item            *)
(* (src/src/common/davitem{create,modify,delete,move,fetch}job.cpp)        *)
(* against a server that other clients change too.                         *)
(*                                                                         *)
(* A request is handled by the server in one step and its answer by the    *)
(* job in a later one; in between anything may happen, and the answer may  *)
(* be lost after the request took effect.  Contents are sets of edits, so  *)
(* that losing an update is losing a member: job j, when it stores an item *)
(* of the application's, adds the edit j to what the application had.      *)
(* ETags are numbers the server never uses twice.                          *)
(*                                                                         *)
(* A create job asks Qt for ManualRedirectPolicy and follows redirects     *)
(* itself (davitemcreatejob.cpp:66).  For the others Qt does, by the       *)
(* NoLessSafeRedirectPolicy of DavManager (davmanager.cpp:31): a 307 or    *)
(* 308 repeats the request at the new URL, a 301, 302 or 303 makes it a    *)
(* GET there, and what Qt does not follow is a reply error.                *)
(***************************************************************************)
EXTENDS DavJobBase, FiniteSets

CONSTANTS
    Jobs,               \* the jobs the application may run, each once
    Others,             \* the changes other clients may make, each once
    Urls,
    Home,               \* [Urls -> Urls]: where requests for a URL end after
                        \* the server's redirects, itself if there are none
    RefusalCodes,       \* statuses of requests that fail without effect
    MaxVersions,        \* bound on the versions the server stores
    MaxRedirects        \* 4: the redirect count a create job tolerates

ASSUME ItemJobsAssumption ==
    /\ IsFiniteSet(Jobs) /\ IsFiniteSet(Urls)
    /\ Jobs \cap Others = {}
    /\ Home \in [Urls -> Urls]
    /\ \A u \in Urls : Home[Home[u]] = Home[u]
    /\ RefusalCodes \subseteq {0} \cup ((400 .. 599) \ {404, 410, 412})
    /\ MaxVersions \in Nat \ {0} /\ MaxRedirects \in Nat

VARIABLES
    server,             \* [Urls -> the version stored there, or Nowhere]
    lastEtag,           \* the ETag of the newest version
    job,                \* [Jobs -> the state of the job]
    reply,              \* [Jobs -> NoReply or the answer on its way]
    othersDone,         \* the changes other clients made
    \* History, read by properties only:
    versions,           \* every DavItem the server ever stored
    wrote,              \* [Jobs -> ETag of the version its request stored]
    removed,            \* jobs whose request removed, or found gone, the item
    refused,            \* jobs whose request failed its precondition
    misled              \* jobs whose request had no effect but an answer that
                        \* no handler tells from a success

envVars == <<server, lastEtag, othersDone>>
historyVars == <<versions, wrote, removed, refused, misled>>
vars == <<envVars, job, reply, historyVars>>

Edits == Jobs \cup Others
NoEtag == 0
Etag == 0 .. MaxVersions

\* What a URL of the server holds.
Nowhere == [etag |-> NoEtag, data |-> {}]
Stored == [etag : Etag, data : SUBSET Edits]

\* DavItem: url, ETag and data.
DavItem == [url : Urls, etag : Etag, data : SUBSET Edits]
At(url, version) == [url |-> url, etag |-> version.etag, data |-> version.data]

Kind == {"none", "create", "modify", "delete", "move", "fetch"}
Phase == {"new",        \* not started
          "request",    \* waits for the answer to its own request
          "refresh",    \* stored; waits for the item as the server has it
          "conflict",   \* refused by 412; waits for the conflicting item
          "done"}       \* result() was emitted

\* freshItem is a set of at most one item: a default DavItem has no URL.
JobState ==
    [kind : Kind, phase : Phase, item : DavItem, destination : Urls,
     freshItem : SUBSET DavItem, freshResponseCode : Int,
     error : ErrorNumber \cup {"UserDefinedError"}, latestResponseCode : Nat,
     redirectCount : Nat]

NoReply == [state |-> "none"]
Reply == [state : {"answered"}, netError : BOOLEAN, status : Nat,
          location : Urls, etag : Etag, data : SUBSET Edits]

\* The URLs that are no redirects: where items are.
Homes == {u \in Urls : Home[u] = u}

Present(url) == server[url].etag # NoEtag
Waiting(j) == job[j].phase \in {"request", "refresh", "conflict"}
Done(j) == job[j].phase = "done"
Succeeded(j) == Done(j) /\ job[j].error = NO_ERR
Conflicts(j) == HasConflict(job[j].latestResponseCode)

TypeOK ==
    /\ server \in [Urls -> Stored]
    /\ lastEtag \in Etag
    /\ job \in [Jobs -> JobState]
    /\ reply \in [Jobs -> {NoReply} \cup Reply]
    /\ othersDone \subseteq Others
    /\ versions \subseteq DavItem
    /\ wrote \in [Jobs -> Etag]
    /\ removed \subseteq Jobs
    /\ refused \subseteq Jobs
    /\ misled \subseteq Jobs

\* The collection starts empty or with one item somebody stored.
Init ==
    /\ \E full \in {u \in SUBSET Homes : Cardinality(u) <= 1} :
        /\ server = [u \in Urls |-> IF u \in full THEN [etag |-> 1, data |-> {}]
                                                  ELSE Nowhere]
        /\ lastEtag = Cardinality(full)
        /\ versions = {At(u, [etag |-> 1, data |-> {}]) : u \in full}
    /\ \E u \in Urls :
        job = [j \in Jobs |->
                 [kind |-> "none", phase |-> "new",
                  item |-> At(u, Nowhere), destination |-> u,
                  freshItem |-> {}, freshResponseCode |-> 0,
                  error |-> NO_ERR, latestResponseCode |-> 0,
                  redirectCount |-> 0]]
    /\ reply = [j \in Jobs |-> NoReply]
    /\ othersDone = {}
    /\ wrote = [j \in Jobs |-> NoEtag]
    /\ removed = {}
    /\ refused = {}
    /\ misled = {}

-----------------------------------------------------------------------------
(* The application: every item it starts a job with is one that an earlier *)
(* job returned, or a new one.                                             *)

Returned ==
    {job[j].item : j \in {i \in Jobs : Succeeded(i)
                             /\ job[i].kind \in {"create", "modify", "fetch"}}}
    \cup UNION {job[j].freshItem : j \in {i \in Jobs : Done(i)}}

\* The constructor of a job and its start(), up to sending the request.
StartWith(j, kind, item, destination, freshCode) ==
    /\ job' = [job EXCEPT ![j].kind = kind, ![j].phase = "request",
                          ![j].item = item, ![j].destination = destination,
                          ![j].freshResponseCode = freshCode]
    /\ UNCHANGED <<envVars, reply, historyVars>>

IsNew(j) == job[j].phase = "new"

StartCreate(j) ==
    /\ IsNew(j)
    /\ \E u \in Urls :
        StartWith(j, "create", [url |-> u, etag |-> NoEtag, data |-> {j}], u, 0)

StartModify(j) ==
    /\ IsNew(j)
    /\ \E item \in Returned :
        StartWith(j, "modify", [item EXCEPT !.data = @ \cup {j}], item.url, 0)

StartDelete(j) ==
    /\ IsNew(j)
    /\ \E item \in Returned : StartWith(j, "delete", item, item.url, -1)

StartMove(j) ==
    /\ IsNew(j)
    /\ \E item \in Returned : \E u \in Urls \ {item.url} :
        StartWith(j, "move", item, u, -1)

StartFetch(j) ==
    /\ IsNew(j)
    /\ \E u \in Urls : StartWith(j, "fetch", At(u, Nowhere), u, 0)

-----------------------------------------------------------------------------
(* The server, by the HTTP semantics the requests' headers ask for         *)

Answer(netError, status, location, version) ==
    [state |-> "answered", netError |-> netError, status |-> status,
     location |-> location, etag |-> version.etag, data |-> version.data]

\* The HTTP layer turns every status from 400 on into a reply error.
Answers(j, status, location, version) ==
    reply' = [reply EXCEPT ![j] = Answer(status >= 400, status, location, version)]

\* A version stored at a URL, the next ETag on it.
StoresAt(url, data) ==
    /\ lastEtag < MaxVersions
    /\ lastEtag' = lastEtag + 1
    /\ server' = [server EXCEPT ![url] = [etag |-> lastEtag + 1, data |-> data]]
    /\ versions' = versions \cup {[url |-> url, etag |-> lastEtag + 1, data |-> data]}

\* Faulty variant: modify and delete without If-Match.
PreconditionOfCreateOnly(j) ==
    job[j].kind = "create" => ~Present(Home[job[j].item.url])

\* The precondition a request carries: If-None-Match: * from create, If-Match
\* from modify and delete.  An empty ETag makes an empty If-Match header,
\* which is not sent: the request is unconditional.
Precondition(j) ==
    LET item == job[j].item
    IN  IF job[j].kind = "create"
        THEN ~Present(Home[item.url])
        ELSE item.etag \in {NoEtag, server[Home[item.url]].etag}

IsRequest(j, kinds) ==
    /\ job[j].phase = "request" /\ job[j].kind \in kinds
    /\ reply[j] = NoReply

FailsPrecondition(j) ==
    /\ ~Precondition(j)
    /\ Answers(j, 412, Home[job[j].item.url], Nowhere)
    /\ refused' = refused \cup {j}
    /\ UNCHANGED <<envVars, job, versions, wrote, removed, misled>>

\* A server may store an item under a URL of its own choice, and says so in
\* the Location header; without that header locationUrl() is the URL where
\* the request ended.
ServerPut(j) ==
    /\ IsRequest(j, {"create", "modify"})
    /\ job[j].kind = "create" => job[j].item.url \in Homes
    /\ \/ /\ Precondition(j)
          /\ \E u \in Homes :
                /\ u = Home[job[j].item.url] \/ ~Present(u)
                /\ StoresAt(u, job[j].item.data)
                /\ Answers(j, 201, u, Nowhere)
                /\ wrote' = [wrote EXCEPT ![j] = lastEtag + 1]
          /\ UNCHANGED <<othersDone, job, removed, refused, misled>>
       \/ FailsPrecondition(j)

\* The resource a create is sent to may live elsewhere.
ServerRedirects(j) ==
    /\ IsRequest(j, {"create"})
    /\ \E u \in Urls : Answers(j, 301, u, Nowhere)
    /\ UNCHANGED <<envVars, job, historyVars>>

\* For an item that is gone a server answers 404 or 410, or 412 when the
\* request carries an If-Match.
ServerDelete(j) ==
    /\ IsRequest(j, {"delete"})
    /\ LET url == Home[job[j].item.url]
       IN  \/ /\ Present(url) /\ Precondition(j)
              /\ server' = [server EXCEPT ![url] = Nowhere]
              /\ removed' = removed \cup {j}
              /\ Answers(j, 204, url, Nowhere)
              /\ UNCHANGED <<lastEtag, othersDone, job,
                            versions, wrote, refused, misled>>
           \/ /\ ~Present(url)
              /\ \E status \in {404, 410} : Answers(j, status, url, Nowhere)
              /\ removed' = removed \cup {j}
              /\ UNCHANGED <<envVars, job, versions, wrote, refused, misled>>
           \/ FailsPrecondition(j)

\* MOVE with Overwrite: T and without an If-Match.
ServerMove(j) ==
    /\ IsRequest(j, {"move"})
    /\ LET from == Home[job[j].item.url]
           to == Home[job[j].destination]
       IN  \/ /\ from # to
              /\ Present(from) /\ lastEtag < MaxVersions
              /\ lastEtag' = lastEtag + 1
              /\ server' = [server EXCEPT
                     ![to] = [etag |-> lastEtag + 1, data |-> server[from].data],
                     ![from] = Nowhere]
              /\ versions' = versions \cup {At(to, server'[to])}
              /\ Answers(j, 201, to, Nowhere)
              /\ wrote' = [wrote EXCEPT ![j] = lastEtag + 1]
              /\ UNCHANGED <<othersDone, job, removed, refused, misled>>
           \/ /\ ~Present(from)
              /\ Answers(j, 404, from, Nowhere)
              /\ UNCHANGED <<envVars, job, historyVars>>

\* The request was redirected with a 301, 302 or 303: what arrives is a GET,
\* with the other headers as they were.  (What it cannot get is refused as
\* the request itself would be, but for the item a modify would store anew.)
FollowedAsGet(j) ==
    /\ IsRequest(j, {"modify", "delete", "move"})
    /\ job[j].item.url \notin Homes
    /\ LET url == Home[job[j].item.url]
       IN  \/ /\ Present(url)
              /\ job[j].kind = "move" \/ Precondition(j)
              /\ Answers(j, 200, url, Nowhere)
              /\ misled' = misled \cup {j}
              /\ UNCHANGED <<envVars, job, versions, wrote, removed, refused>>
           \/ /\ job[j].kind = "modify"
              /\ ~Present(url) /\ Precondition(j)
              /\ Answers(j, 404, url, Nowhere)
              /\ UNCHANGED <<envVars, job, historyVars>>

\* The GET of a fetch job, of a refresh and of a conflict.  The ETag header
\* is optional.
ServerGet(j) ==
    /\ \/ IsRequest(j, {"fetch"})
       \/ job[j].phase \in {"refresh", "conflict"} /\ reply[j] = NoReply
    /\ LET url == Home[job[j].item.url]
       IN  IF Present(url)
           THEN \E etag \in {server[url].etag, NoEtag} :
                   Answers(j, 200, url, [server[url] EXCEPT !.etag = etag])
           ELSE Answers(j, 404, url, Nowhere)
    /\ UNCHANGED <<envVars, job, historyVars>>

\* A request that never takes effect: refused, lost on its way, or redirected
\* more often or to another place than Qt follows.
RequestFails(j) ==
    /\ Waiting(j) /\ reply[j] = NoReply
    /\ \E status \in RefusalCodes :
        reply' = [reply EXCEPT ![j] = Answer(TRUE, status, job[j].item.url, Nowhere)]
    /\ UNCHANGED <<envVars, job, historyVars>>

\* The answer is lost, or cut off after its status line: the job sees an
\* error although the server did as asked.
AnswerLost(j) ==
    /\ reply[j] # NoReply /\ ~reply[j].netError
    /\ \E status \in {0, reply[j].status} :
        reply' = [reply EXCEPT ![j].netError = TRUE, ![j].status = status]
    /\ UNCHANGED <<envVars, job, historyVars>>

\* Another client adds an edit to the version it read, stores a new item or
\* removes one.
OtherClient(o) ==
    /\ o \notin othersDone
    /\ othersDone' = othersDone \cup {o}
    /\ \E u \in Homes :
        \/ StoresAt(u, server[u].data \cup {o})
        \/ /\ Present(u)
           /\ server' = [server EXCEPT ![u] = Nowhere]
           /\ UNCHANGED <<lastEtag, versions>>
    /\ UNCHANGED <<job, reply, wrote, removed, refused, misled>>

-----------------------------------------------------------------------------
(* The jobs' handlers.  Each consumes the answer to the request in flight. *)

\* Changing job j and consuming its answer.
Becomes(j, state) ==
    /\ job' = [job EXCEPT ![j] = state]
    /\ reply' = [reply EXCEPT ![j] = NoReply]
    /\ UNCHANGED <<envVars, historyVars>>

\* setLatestResponseCode() and setError() together, then emitResult().
Fails(state, error, status) ==
    [state EXCEPT !.phase = "done", !.error = error, !.latestResponseCode = status]

HasAnswer(j, kind, phase) ==
    /\ job[j].kind = kind /\ job[j].phase = phase
    /\ reply[j] # NoReply

\* Faulty variant: whatever may come with a Location.
RedirectCodesAndCreated == {201, 301, 302, 307, 308}

RedirectCodes == {301, 302, 307, 308}

\* Faulty variant: the Location is not looked at.
StoredHere(state, url) == [state EXCEPT !.phase = "refresh"]

\* The request was a success: the item is fetched from where it is now.
StoredAt(state, url) == [state EXCEPT !.item.url = url, !.phase = "refresh"]

\* Faulty variant: redirects are not counted.
RedirectedUncounted(state, url) == [state EXCEPT !.item.url = url]

\* The request is sent again, to the URL the server named.
RedirectedTo(state, url) ==
    [state EXCEPT !.item.url = url, !.redirectCount = @ + 1]

\* DavItemCreateJobPrivate::davJobFinished(): a redirect sends the request
\* again, to the new URL.
CreateFinished(j) ==
    /\ HasAnswer(j, "create", "request")
    /\ LET r == reply[j]
       IN  Becomes(j,
             IF r.netError THEN Fails(job[j], "ERR_ITEMCREATE", r.status)
             ELSE IF r.status \notin RedirectCodes
                  THEN StoredAt(job[j], r.location)
             ELSE IF job[j].redirectCount > MaxRedirects
                  THEN Fails(job[j], "UserDefinedError", r.status)
             ELSE RedirectedTo(job[j], r.location))

\* DavItemModifyJobPrivate::davJobFinished()
ModifyFinished(j) ==
    /\ HasAnswer(j, "modify", "request")
    /\ LET r == reply[j]
           failed == Fails(job[j], "ERR_ITEMMODIFY", r.status)
       IN  Becomes(j,
             IF ~r.netError
             THEN StoredAt(job[j], r.location)
             ELSE IF HasConflict(r.status)
                  THEN [failed EXCEPT !.phase = "conflict"]
             ELSE failed)

\* Faulty variant: a conflict is a success as well.
DeleteFinishedWhateverConflict(j) ==
    /\ HasAnswer(j, "delete", "request")
    /\ LET r == reply[j]
       IN  Becomes(j, IF ~r.netError \/ r.status \in {404, 410, 412}
                      THEN [job[j] EXCEPT !.phase = "done"]
                      ELSE Fails(job[j], "ERR_ITEMDELETE", r.status))

\* DavItemDeleteJobPrivate::davJobFinished(): 404 and 410 mean the item is
\* already gone.
DeleteFinished(j) ==
    /\ HasAnswer(j, "delete", "request")
    /\ LET r == reply[j]
           failed == Fails(job[j], "ERR_ITEMDELETE", r.status)
       IN  Becomes(j,
             IF ~r.netError \/ r.status \in {404, 410}
             THEN [job[j] EXCEPT !.phase = "done"]
             ELSE IF HasConflict(r.status)
                  THEN [failed EXCEPT !.phase = "conflict"]
             ELSE failed)

\* DavItemMoveJobPrivate::davJobFinished(): the job's item keeps its URL.
MoveFinished(j) ==
    /\ HasAnswer(j, "move", "request")
    /\ Becomes(j, IF reply[j].netError
                  THEN Fails(job[j], "ERR_ITEMMOVE", reply[j].status)
                  ELSE [job[j] EXCEPT !.phase = "done"])

\* DavItemFetchJobPrivate::davJobFinished(): the response code is kept even
\* on success; on an error the item stays what it was.
FetchedItem(item, r) == [item EXCEPT !.data = r.data, !.etag = r.etag]

FetchFinished(j) ==
    /\ HasAnswer(j, "fetch", "request")
    /\ LET r == reply[j]
       IN  Becomes(j,
             IF r.netError
             THEN Fails(job[j], "ERR_PROBLEM_WITH_REQUEST", r.status)
             ELSE [job[j] EXCEPT !.phase = "done",
                                 !.latestResponseCode = r.status,
                                 !.item = FetchedItem(@, r)])

\* Faulty variant: when the fetch failed the old ETag stays.
RefreshedEtagOrOld(j, r) == IF r.netError THEN job[j].item.etag ELSE r.etag

\* itemRefreshed() of create and modify: only the ETag is taken over; when
\* the fetch failed modify clears it and create leaves it alone.
RefreshedEtag(j, r) ==
    IF ~r.netError THEN r.etag
    ELSE IF job[j].kind = "modify" THEN NoEtag
    ELSE job[j].item.etag

\* Faulty variant: the job fails when the fetch does.
ItemRefreshedOrFails(j) ==
    /\ job[j].phase = "refresh" /\ reply[j] # NoReply
    /\ Becomes(j, IF reply[j].netError
                  THEN Fails(job[j], "ERR_PROBLEM_WITH_REQUEST", reply[j].status)
                  ELSE [job[j] EXCEPT !.phase = "done",
                                      !.item.etag = reply[j].etag])

ItemRefreshed(j) ==
    /\ job[j].phase = "refresh" /\ reply[j] # NoReply
    /\ Becomes(j, [job[j] EXCEPT !.phase = "done",
                                 !.item.etag = RefreshedEtag(j, reply[j])])

\* Faulty variant: the fetch job's item is taken even if it failed.
ConflictingItemTaken(j) ==
    /\ job[j].phase = "conflict" /\ reply[j] # NoReply
    /\ Becomes(j, [job[j] EXCEPT !.phase = "done",
                                 !.freshResponseCode = reply[j].status,
                                 !.freshItem = {FetchedItem(job[j].item, reply[j])}])

\* conflictingItemFetched() of modify and delete: the response code of the
\* job itself stays 412.
ConflictingItemFetched(j) ==
    /\ job[j].phase = "conflict" /\ reply[j] # NoReply
    /\ LET r == reply[j]
       IN  Becomes(j,
             [job[j] EXCEPT !.phase = "done",
                            !.freshResponseCode = r.status,
                            !.freshItem = IF r.netError THEN {}
                                          ELSE {FetchedItem(job[j].item, r)}])

-----------------------------------------------------------------------------
Handler(j) ==
    \/ CreateFinished(j) \/ ModifyFinished(j) \/ DeleteFinished(j)
    \/ MoveFinished(j) \/ FetchFinished(j)
    \/ ItemRefreshed(j) \/ ConflictingItemFetched(j)

ServerStep(j) ==
    \/ ServerPut(j) \/ ServerRedirects(j) \/ ServerDelete(j)
    \/ ServerMove(j) \/ ServerGet(j) \/ FollowedAsGet(j)
    \/ RequestFails(j)

Starts(j) ==
    \/ StartCreate(j) \/ StartModify(j) \/ StartDelete(j)
    \/ StartMove(j) \/ StartFetch(j)

\* The application may stop starting jobs at any time.
Quiescent == (\A j \in Jobs : ~Waiting(j)) /\ UNCHANGED vars

Next ==
    \/ \E j \in Jobs : \/ Starts(j) \/ ServerStep(j) \/ AnswerLost(j)
                       \/ Handler(j)
    \/ \E o \in Others : OtherClient(o)
    \/ Quiescent

Spec == Init /\ [][Next]_vars

\* Every request is answered or given up in the end, and the event loop
\* delivers every finished reply.
Fairness == \A j \in Jobs : WF_vars(ServerStep(j)) /\ WF_vars(Handler(j))

FairSpec == Spec /\ Fairness

-----------------------------------------------------------------------------
(* Properties                                                              *)

Stores(j) == job[j].kind \in {"create", "modify"}

\* The item a storing job was started with, as the server would know it.
Base(j) == [job[j].item EXCEPT !.data = @ \ {j}]

\* A job that ends without an error did what it was asked, unless a redirect
\* turned its request into a GET: a create or modify job's item, under the URL
\* the job returns, was stored by this very job, whatever redirects and
\* Location headers it met; a deleted item was removed or found gone.
SuccessMeansDone ==
    \A j \in Jobs \ misled : Succeeded(j) =>
        /\ Stores(j) => [job[j].item EXCEPT !.etag = wrote[j]] \in versions
        /\ job[j].kind = "move" => wrote[j] # NoEtag
        /\ job[j].kind = "delete" => j \in removed

\* A job that ends with a refusal of the server changed nothing there.  (One
\* whose connection broke may have: its code is 0 or a success status.)
RefusedMeansUntouched ==
    \A j \in Jobs :
        Done(j) /\ job[j].error # NO_ERR /\ job[j].latestResponseCode >= 300
            => wrote[j] = NoEtag /\ j \notin removed

\* A job whose request failed its precondition ends with an error and the
\* code of a conflict, whether or not fetching the other version fails, and no
\* other job does.  Only such a job hands out an item, and that one has the
\* contents, and no ETag but that, of a version the server really had there
\* and that is not the one the job was started from: the application can
\* merge into it and store again.
ConflictHandsOutOtherVersion ==
    \A j \in Jobs : Done(j) =>
        /\ j \in refused <=> job[j].error # NO_ERR /\ Conflicts(j)
        /\ \A fresh \in job[j].freshItem :
              /\ j \in refused /\ job[j].freshResponseCode \in 200 .. 299
              /\ fresh.url = job[j].item.url
              /\ \E v \in versions :
                    /\ v.url = Home[fresh.url] /\ v.data = fresh.data
                    /\ v.etag # job[j].item.etag
                    /\ fresh.etag \in {NoEtag, v.etag}

\* A modified item comes back with no ETag or one at least as new as the
\* version the job stored: never with the one that it replaced, with which
\* the next change would be refused.
EtagNotOlderThanWrite ==
    \A j \in Jobs : Succeeded(j) /\ job[j].kind = "modify" =>
        job[j].item.etag = NoEtag \/ job[j].item.etag >= wrote[j]

\* A job that stores an item the application had from the server (or a new
\* item) under a URL takes away no edit of any other client's there, and a
\* delete removes the version its item came from and no other, unless the
\* application holds no ETag of it.
KeepsOthersEdits ==
    [][\A j \in Jobs :
          /\ /\ wrote'[j] # wrote[j] /\ Stores(j)
             /\ job[j].kind = "create" \/ Base(j) \in versions
             => \A u \in Urls : server[u].data \subseteq server'[u].data
          /\ j \in removed' \ removed =>
                \A u \in Urls : server'[u] # server[u] =>
                    job[j].item.etag \in {NoEtag, server[u].etag}]_vars

\* DavItemModifyJob::item() and DavItemCreateJob::item() return the stored
\* item with its ETag, so that the pair is a version the server had.
ReturnedItemIsAVersion ==
    \A j \in Jobs :
        Succeeded(j) /\ Stores(j) /\ job[j].item.etag # NoEtag
            => job[j].item \in versions

\* Every job implements OneEffect: what it stores, moves or removes it does
\* once, between start() and result(), whatever redirects it meets, and its
\* error and response code tell whether it did, unless a redirect turned its
\* request into a GET.
Outcome(j) ==
    IF ~Done(j) THEN "pending"
    ELSE IF Succeeded(j)
         THEN IF job[j].kind = "fetch" THEN "nothing"
              ELSE IF j \in misled THEN "unknown" ELSE "done"
    ELSE IF job[j].latestResponseCode >= 300 THEN "nothing" ELSE "unknown"
OE(j) == INSTANCE OneEffect
            WITH None <- <<NoEtag, FALSE>>,
                 phase <- IF Done(j) THEN "ended"
                          ELSE IF Waiting(j) THEN "running" ELSE "new",
                 effect <- <<wrote[j], j \in removed>>,
                 outcome <- Outcome(j)
ActsOnce ==
    /\ \A j \in Jobs : OE(j)!Init
    /\ [][\A j \in Jobs : OE(j)!Next \/ UNCHANGED OE(j)!vars]_vars

\* Every started job ends, however often it is redirected.
Terminates == \A j \in Jobs : Waiting(j) ~> Done(j)

=============================================================================
