# A TLA+ model of KDAV

KDAV is KDE's library of asynchronous jobs for CalDAV, CardDAV and GroupDAV.
An application (an Akonadi resource, say) creates a job object, calls
`start()`, and is told by `result()` when the job has finished; what the job
found and how it failed is then read from the job. Everything happens in one
thread, in the handlers of the Qt event loop, but nothing happens at once: a
job sends one or several HTTP requests, their answers come in any order, and
the server, other clients and the application's shared ETag cache change in
between. The models in this directory are about those interleavings, about the
failures that can hit any of the requests, and about what a finished job may
then claim.

All paths below are relative to the repository (`src/src/common/...` is
abbreviated to the file name).

## The system: inventory

| Part | State | Operations | Model |
| --- | --- | --- | --- |
| `DavJobBase` (`davjobbase.cpp`, `daverror.h`) | error, error text, latest response code, force-retry flag | `setErrorTextFromDavError`, `canRetryLater`, `hasConflict`, ... | `DavJobBase` |
| `EtagCache` | url -> ETag map, set of urls marked as changed | `setEtag`, `setEtagInternal`, `removeEtag`, `markAsChanged`, `etagChanged`, `isOutOfDate`, `contains`, `urls` | `EtagCache` |
| `DavItemsListJob` | sub-job counter, seen urls, items, changed items, deleted items | `start`, `davJobFinished` | `ItemsListJob` |
| `DavItemCreateJob`, `ModifyJob`, `DeleteJob`, `MoveJob`, `FetchJob` | the item, redirect count, fresh item and its response code | `start`, `davJobFinished`, `itemRefreshed`, `conflictingItemFetched` | `ItemJobs` |
| `DavPrincipalHomeSetsFetchJob` | which properties it asks for, home sets | `start`/`fetchHomeSets`, `davJobFinished` | `CollectionsFetchJob` |
| `DavCollectionsFetchJob` | sub-job counter, collections | `start`, `principalFetchFinished`, `doCollectionsFetch`, `collectionsFetchFinished`, `subjobFinished` | `CollectionsFetchJob` |
| `DavCollectionsMultiFetchJob` | subjobs, collections | constructor, `start`, `slotResult` | `CollectionsMultiFetchJob` |
| `DavPrincipalSearchJob` | sub-job counter, one-success flag, results | `start`, `principalCollectionSetSearchFinished`, `principalPropertySearchFinished` | `PrincipalSearchJob` |
| `DavItemsSyncJob` | changed items, deleted items, old and new sync token | `start`, `davJobFinished` | `CollectionSync` |
| `DavItemsFetchJob` (multiget) | items by url | `start`, `davJobFinished`, `item` | `CollectionSync` |
| `DavCollectionCreateJob`, `ModifyJob`, `DeleteJob` | collection, properties to set and remove, redirect count (never used, see below) | `start`, `davJobFinished` | `CollectionJobs` |
| `DavPushRegistrationJob`, `DavPushUnregistrationJob`, `DavPushDontNotify` | registration URL, expiration date; ignored URLs | `start`, `onRegistrationDone`, `onUnregistrationDone`; `setIgnoredUrls`, `setIgnoreAll`, `davHeader` | `PushJobs` |
| protocols (`src/src/protocols`, `davprotocolbase.cpp`, `protocolinfo.cpp`) | none | queries, how an answer is read, what a new collection is written as | `Protocols`, used by the modules of the jobs |
| `DavManager` | a `QNetworkAccessManager` with its redirect policy, the protocol objects | `createPropFindJob`, ..., `davProtocol` | which protocol a job gets, which request it makes and what becomes of it when it is redirected; no state of its own |
| value types (`davcollection.cpp`, `davurl.cpp`, `davitem.cpp`, `utils.cpp`) | data | accessors, `locationUrl`, `urlFromHref`, `extractPrivileges`, `extractDavPushSupport` | in `ItemJobs`, `CollectionJobs`, `PushJobs` |
| error texts (`daverror.cpp`) | none | wording | no |
| `FakeServer` (`src/autotests`) | a script | plays the server in the tests | no: the modules have servers of their own |

**How they interact.** A job asks `DavManager` for a `DavJob` or a raw
`QNetworkReply` and connects one of its private functions to the end of it.
Jobs that fan out (`ItemsListJob`, `CollectionsFetchJob`,
`PrincipalSearchJob`) count what is in flight in an unsigned counter and call
`emitResult()` when it reaches zero. Jobs use other jobs: create and modify
end with a `DavItemFetchJob` that fetches the new ETag, modify and delete start
one on a conflict (412) to hand the other version to the application,
`DavCollectionsFetchJob` begins with a `DavPrincipalHomeSetsFetchJob`, and
`DavCollectionsMultiFetchJob` is a `KCompositeJob` over
`DavCollectionsFetchJob`s. `DavItemsListJob` reads an `EtagCache` that the
application shares with all its jobs and writes when items are stored or
removed. The changed items of a `DavItemsSyncJob` are the urls of a
`DavItemsFetchJob`, and its new sync token is what the application gives to the
next one. What a collection job writes of a collection, a
`DavCollectionsFetchJob` reads again; what the protocol objects ask for decides
what of it arrives. The URL that a `DavPushRegistrationJob` returns is what
`DavPushUnregistrationJob` deletes and what `DavPushDontNotify` names in the
requests of the other jobs. Items flow from finished jobs into new ones: the ETag of an item that
one job returns is the `If-Match` of the next.

**What is hard.**
- Answers arrive in any order, each against a different state of server and
  cache; some are errors, some are successes that say nothing.
- The end of a job is a counter in a handler with several early returns.
- Requests take effect and their answers are lost.
- A request is redirected, by the job or below it, or stored under another URL
  than it asked for.
- A request is refused in part: the failure stands inside a 207 answer.
- Registrations expire, are renewed and are undone, with lost answers between.
- A job reads the server twice (PUT, then GET), with others in between.
- A sync answer breaks off, or holds a response that cannot be read, after a
  part of it has been taken; a multiget answer leaves out what it was asked for.
- Which of several errors a job reports decides whether the application
  retries later or takes an absence for a deletion.

PROJECT.json lists each of these hazards at its line in the source, with the
properties that speak about it, or why none does.

**What makes the components correct.**
- *Item list*: no item is listed twice, or listed and deleted; what it calls
  changed and deleted is right for everything that nobody touched meanwhile;
  a failed request is never hidden by a later success.
- *Item jobs*: no update of another client is lost; success means the server
  did it; a refusal means it did not; a conflict hands out a version that
  differs from the one the job had.
- *Collections*: an incomplete list is never passed off as complete; a home
  set that fails makes the job retryable.
- *Principal search*: one successful search suffices, whatever fails.
- *Sync*: a token is never handed out with less than all the changes before
  it, so that a copy kept with it never misses one.
- *Collection jobs*: success means the one request took effect, where the
  URL the job then has leads, as far as the answer lets the job know; a refusal
  means nothing was changed; a created collection is read as it was made.
- *Push*: a registration held as valid is one; an application that leaves does
  leave; a change is pushed to everyone else and not back.
- *All that fan out*: `result()` comes exactly once, after the last answer.

## The modules

| Module | Models |
| --- | --- |
| `DavJobBase` | the error numbers, the test for a failed request, `canRetryLater()`, `hasConflict()` as operators over a job's error state |
| `ResultOnce` | **abstract specification**: a job with a set of outstanding requests emits `result()` in the step that finds none left, once |
| `OneEffect` | **abstract specification**: a job takes effect at most once, between `start()` and `result()`, and `result()` does not deceive about it |
| `Replica` | **abstract specification**: a copy of a collection and the point in its history up to which the copy is right, which move together |
| `EtagCache` | the cache's two maps and one action or operator per method |
| `Protocols` | what each of the three protocols asks for, how its answers are read and what a new collection is written as: operators without state |
| `ItemsListJob` | the list job, the server's items, other clients and the owner of the cache; EXTENDS `EtagCache` and `DavJobBase` |
| `ItemJobs` | several item jobs, an application that starts them with items earlier jobs returned, a server with preconditions, other clients |
| `CollectionsFetchJob` | one state machine per configured URL: the home-set rounds, then the fetches, as its protocol asks for them |
| `CollectionsMultiFetchJob` | the composite over the former: its `slotResult()` runs in the step in which a subjob emits |
| `PrincipalSearchJob` | locating the collection sets, then one REPORT for each |
| `CollectionSync` | a sync job and a fetch job in turn, as an application uses them to keep a copy of a collection that other clients change |
| `CollectionJobs` | create, modify and delete jobs of one home set, other clients, and what a fetch job reads of the outcome |
| `PushJobs` | applications that register, renew and leave, registrations that expire, and the header of the changes they make |
| `MC*` | instances for TLC |
| `*_proofs` | theorems about the module they are named after, for all values of its constants |

`ItemsListJob`, `CollectionsFetchJob` (for each URL),
`CollectionsMultiFetchJob` and `PrincipalSearchJob` are shown to implement
`ResultOnce` by a refinement mapping: the outstanding requests are those whose
answer has not been handled (`DeliversOneResult`, `MultiDeliversOneResult`).

`ItemJobs` and `CollectionJobs` implement `OneEffect`, for each job
(`ActsOnce`): its effect is what history records of its request (`wrote` and
`removed`, or `made`), its phase tells a new, a running and an ended job apart,
and its outcome is read from the error and the response code as an application
reads them. `CollectionSync` implements `Replica` (`KeepsReplica`): the copy is
what the application kept of the jobs' results, the token the one it holds.

### How code and model correspond

- A **handler is one action**: `DavJobFinished(q)` is one call of
  `DavItemsListJobPrivate::davJobFinished()`, with the branch of the failed
  request, the branch of the multistatus, the recomputation of the deleted
  items and the decrement of the counter with its `emitResult()`. The helpers
  it is composed of (`TakeListing`, `TakeFailure`, `NotSeen`, `SubJobDone`)
  are the parts of that function; none is a step of its own.
- The **network** is a variable that says of every request whether it is idle,
  sent, or answered with the answer not yet handled. Server and handler take
  separate steps, so a request may be answered and handled with anything in
  between. `RequestFails`, `ServerFails`, `Fails` are refusals and lost
  requests; `AnswerLost` (item, collection and push jobs) is an answer lost *after* the request
  took effect, with status 0, or with its status and a network error when the
  body was cut off.
- **Redirects** are of two kinds. `DavItemCreateJob` asks for
  `ManualRedirectPolicy` (`davitemcreatejob.cpp:66`), is given each redirect
  and sends its request again (`ServerRedirects`, `RedirectedTo`). Every other
  request goes out under the `NoLessSafeRedirectPolicy` of `DavManager`
  (`davmanager.cpp:31`), and no handler sees a redirect: Qt repeats the
  request after a 307 or 308, so that it ends at `Home[url]`, a constant of the
  model; after a 301, 302 or 303 it sends a GET there, which is
  `FollowedAsGet`; and one that it does not follow is a reply error. That GET
  can succeed although nothing was done. Such a job is in `misled`, and so is
  one of `CollectionJobs` whose 207 answer tells of the failure by the status
  of a response: no handler can tell its answer from that of a success. The
  branch of `DavCollectionCreateJob` for redirects (`:118`) is not reached and
  is no part of the model.
- **Strings and XML** are abstracted to what the code tells apart: an item is
  an id, an ETag a value (a number the server never reuses in `ItemJobs`), a
  multistatus is the function of what its readable responses say. The
  contents of an item are the set of edits that went into it, so that a lost
  update is a lost member. A query is the set of properties it asks for
  with its filter, and a server's answer holds no property that was not asked
  for: a property missing from a protocol's table is missing in the model.
  Colours are the pair of their parts, in the order in which they stand.
- **Errors** are the names of `ErrorNumber`; the one code that is outside it
  (too many redirects, `KJob::UserDefinedError` plus the status) is
  `"UserDefinedError"`.
- In `ItemsListJob` the variables `changes`, `touched`, `missing`, `failed`,
  in `ItemJobs` `versions`, `wrote`, `removed`, `refused`, `misled`, in
  `CollectionsFetchJob` `misled`, `failures`, in `CollectionJobs` `made`,
  `misled`, in `PrincipalSearchJob` `succeeded`, `searched`, in
  `CollectionSync` `owed` are **history**: no guard but the bound on `changes`
  reads them.
- Definitions whose comment begins with **"Faulty variant"** are not part of
  any specification. They are what a plausible slip in the code would make of
  the definition next to them; with one of them in its place TLC finds the
  property that PROJECT.json names beside it violated, which shows that the
  property can fail and that the bounds are large enough to see it.
- What the server does is modelled from how the code uses it: preconditions
  (`If-Match`, `If-None-Match`), redirects, `Location`, 404/410 of what is
  gone, sync answers that name what changed since the token, PROPPATCH that
  changes all properties or none, registrations of one endpoint each. These
  definitions are marked external, and so is the application of `CollectionSync`. It is a
  careful one: it takes over what the jobs found only when neither failed, a
  new token came with it and every item it asked for arrived; it starts again
  without a token when the server refuses the one it has.

## What TLC checks

| Run | Question | Bounds |
| --- | --- | --- |
| `items_list` | Are the changed and deleted items right, the error kept and the result single, while server and cache change? | the event and the todo query with a time range, 2 items, 2 ETags, 2 changes, every initial server and cache |
| `item_jobs` | Are updates safe, and are the reports of jobs true? | 3 jobs of any kind, one URL, one other client, 4 versions |
| `item_jobs_urls` | With redirects, `Location` and moves: does a job act once and tell whether it did, and does every job end? | 2 jobs, 2 URLs and a third that is redirected to one of them, 3 versions, redirect bound 0 |
| `collections` | Is a list that is returned complete, whatever fails in whatever order? Does the composite return what its subjobs returned, report what failed, once, and end? | 3 URLs, one of each protocol, one with two overlapping home sets, statuses 0 and 403 |
| `collection_jobs` | Does a job act once and report what happened to the collection, and is a new one read as it was made? | a create beside a modify or delete, 2 URLs and a third that is redirected to one of them, one other client, each protocol, 2 collections, 2 changes |
| `push_jobs` | Is a registration what its holder takes it for, does leaving succeed, who is told of a change? | 2 applications, one of which leaves and makes a change, 2 registrations (one on another host), lifetime 2, clock 1, one fault |
| `collection_sync` | Does a copy kept by sync and fetch jobs miss a change, does its token move with it, and does it catch up? | 2 items and a subcollection, 2 changes, 2 faulty answers, statuses 0 and 503, each protocol |
| `principal_search` | Does one success suffice, are the results what was searched for, is the result single, does it come? | 3 collection sets, one of them empty, statuses 0, 412, 503 |
| `item_jobs_returned` | finding: the item a job returns is not a version of the server | 2 jobs, one other client |
| `collection_jobs_redirected` | finding: a create job that was redirected succeeds and has created nothing | those of `collection_jobs` |
| `collection_sync_cut` | finding: a sync job succeeds with a part of the changes | 2 items and a subcollection, 1 change, 1 faulty answer |
| `principal_search_empty` | finding: a collection set without an href never ends the job | `EmptySets = TRUE` |

**Why the bounds are enough.**
Two queries make every order of answers and every pair of a failure and a
success; a third adds no new kind of pair, and the theorems hold for any number.
One item per query, one inside and one outside the time range, with servers
that may list *any* subset of what they have in any answer, gives every kind of
duplicate and omission. Two changes are what it takes for an item to go and
come back between two answers. Three item jobs are a create or fetch that
yields an ETag, a job that uses it, and a third that interferes or uses what
the second returned; the other client's edit can fall into any gap. Two URLs
redirect to each other, for a create job; the third, redirected to the first,
is what a modify, delete or move meets, and lets two jobs act on one item by
two names. Two home sets are the least for which the order of two
errors matters; their shared collection is the duplicate. Three collection
sets have a failure before and after a success. In `collection_sync` two
changes can fall before and after a sync, or between a sync and its fetch, and
two faulty answers can hit two jobs of one round or the same job twice. In
`collection_jobs` the create meets a collection that is there, one that is made
or removed between its request and its answer, and a name that the server
moves; the two new collections have a solid and a translucent colour, a type
that an MKCOL cannot carry alone and beside others; the solid one is created
without any type its protocol can carry, and is read with all. In `push_jobs` the second
application is the one that must hear of what the first changes; two
registrations are a renewal and an expired predecessor, and the lifetime
is longer than the clock runs, so that some expire and some do not.
`MaxVersions`, `MaxChanges`, `MaxFaults`, `Horizon` and `MaxRounds` bound the
environment only. `MaxRedirects` is the limit of the create job, 4 in the code; with 0 in the
runs of the item jobs it still follows one redirect and gives up at the second,
which shortens a chain whose steps are all alike.

The symmetries are of ETags in the item list (the code only compares them for
equality) and of jobs in `item_jobs` (nothing orders them); runs that
check liveness use none.

**Deadlock** is checked everywhere but in `push_jobs`: a finished system takes
an explicit idle step (`Finished`, `Quiescent`, `Idling`; the application of
`CollectionSync` never stops), so a job that waits for something no step
provides shows up, except in `PrincipalSearchJob`, where the idle step also
covers a job that waits for nothing and `Terminates` catches it. In
`PushJobs` the supply of registrations and changes ends, and with it what
the applications can get done; a reply that is never handled would show in
`EventuallySilent`.

**Fairness.** Weak fairness of a server step for each request in flight: Qt's
network layer answers a request or gives up on it in the end. Weak fairness of
each handler whose answer is there: the event loop delivers each finished
reply. In `PrincipalSearchJob` and for the composite also of `Start`, which
`KJob::start()` runs from the event loop, in `CollectionSync` of the
application, which goes on to its next step when a job has ended, and in
`PushJobs` of an application that wants to leave: it tries again. There
`MaxFaults` makes the server's answers right from some time on, and
`MaxChanges` ends the changes; `CatchesUp` is about what then follows. `CollectionJobs` has no fairness: its
jobs send one request each, and no liveness is stated of them. Nothing is
assumed of other clients or of the owner of the cache, and nothing of which answer a server gives.

## What the properties say

*Item list.* `ClassificationExact` is the job's purpose: after success, an item
that nobody touched is in the changed items exactly when server and cache
differ and in the deleted ones exactly when it is cached and gone.
`DeletedWasMissing` holds even for items that come and go meanwhile: nothing is
called deleted that was there throughout and in every answer it belongs in.
`ListedOnceAndNotDeleted` and `FailureReported` are about the
job's own bookkeeping. Two limits are stated in the model, not hidden: an answer
that leaves an item out (a 2xx body that is no multistatus does it for all)
counts as *missing*, since the code cannot tell; and what the job lists of an
item somebody touched is only one of the versions there were.

*Item jobs.* `KeepsOthersEdits`: storing an item that is a version the server
had, or a new one, never takes away another client's edit. Its premise is
needed, see the finding on returned items. `SuccessMeansDone` and
`RefusedMeansUntouched` tie what a job reports to what its requests did, with
lost answers, refreshes that fail, redirects and `Location` headers of create
and modify; a request that Qt turned into a GET is excepted, as the job cannot
tell. `ConflictHandsOutOtherVersion`: a job whose request failed its
precondition, and no other, ends with an error and the code of a conflict,
however the fetch of the other version goes; and what it hands out is a version
that was there and is not the one the job had, with its ETag or, when the
server sent none, without. `EtagNotOlderThanWrite` is about the item the
application continues with.
A delete that removes another version than the one its item came from violates
`KeepsOthersEdits`, too. `ActsOnce`: no chain of redirects, refreshes and lost
answers makes a job store or remove twice, act before `start()` or after
`result()`, or end with a report that the effect contradicts. `Terminates`: every job ends, however it is redirected.

*Collections.* `SuccessIsComplete` (each collection once, announced once),
`FailureReturnsNothing`, `HomeSetFailureRetryable`, `ErrorMatchesCode`, and
`AtMostTwoRounds` of servers that send only what was asked for. The property is
about the code: the second round asks for home sets only, so that its answer
names no principal. `CombinesSubjobs`, `MultiDeliversOneResult` and
`MultiTerminates` for the composite. A 2xx answer that is no multistatus tells
of no home set, and the job takes the URL for one without principals: the
sources in `misled` are those where that happened, and `SuccessIsComplete`
excepts them.

*Collection jobs.* `SuccessMeansDone` and `RefusedMeansUntouched` tie what a job
reports to `made`, the URLs at which its request took effect; `ActsOnce`
orders the effect between `start()` and `result()` and allows only one. Both
except the jobs in `misled`. `CreatedIsFetched` is a round trip through
`Protocols`: what `writeMkCol()` writes, what `collectionsQuery()` asks for and
what the fetch job reads agree on name, colour and content types, as far as the
protocol can say what the application wanted (`Expressible`); a calendar that
was created without a type is read with all a calendar can have. The
privileges read are those at the bottom of what the server grants, where it
tells. `CreatedWasMade` is what the header says of a create job without an
error, and what a redirect makes false.

*Push.* `RegistrationKnown` relates what an application keeps of the jobs'
results to the server, across renewals, expiry and lost answers.
`UnregisteredMeansGone` rests on the 404 that is no failure. `OthersAreNotified`:
`DavPushDontNotify` leaves out whom it should and nobody else, however it was
used before. `EventuallySilent`: an application that wants to leave gets to
know that it has.

*Principal search.* `OneSuccessSuffices` (with results that are the properties
asked for, of principals that match), `ErrorMatchesCode`, `DeliversOneResult`,
`Terminates`, with servers whose collection sets have at least one href.

*Sync.* `TokenMeansWhole`: a job that ends with a new token has no error and
holds every changed and every deleted item of the whole answer, however the
answer broke off. It rests on the place of the token, which is read after the
responses. `NoChangeMissed`: whatever changed before the token that the
application holds is in its copy as it is on the server, across any number of
syncs, failures, refused tokens and changes between the REPORT and the
multiget. `KeepsReplica` adds the order: the token never goes back but to
none, and never changes without the copy that belongs to it. `CatchesUp`: in the end the copy equals the collection. These hold for
servers that put the token after the responses, as RFC 6578 does, and whose
tokens arrive whole or not at all; the application of the model runs one job at
a time. A server that limits its results and says so with a 507 response is
among the faulty answers: the job fails on it.

## Findings

1. **A returned item may pair one version's data with another's ETag**
   (`davitemcreatejob.cpp:153`, and `davitemmodifyjob.cpp:145`;
   `item_jobs_returned`). The refresh after a PUT takes the ETag of whatever is
   on the server by then. If another client has stored in between, the
   application's next modify carries an ETag that matches and overwrites that
   change unseen, although `davitemcreatejob.h:60` promises "the created DAV
   item including the correct identifier URL and current ETag information".
2. **A redirected creation succeeds without creating**
   (`davcollectioncreatejob.cpp:118`; `collection_jobs_redirected`). MKCOL and
   MKCALENDAR go out under the redirect policy of `DavManager`, so that Qt
   follows a 301 or 302 with a GET and the job, which has a branch to send its
   request again, is given the GET's 200 and ends without an error. The header
   says of `collection()` "Returns the created DAV collection including the
   correct identifier URL" (`davcollectioncreatejob.h:58`). The jobs that
   modify, delete and move end in the same way.
3. **A sync job succeeds with a part of the changes**
   (`davitemssyncjob.cpp:182`; `collection_sync_cut`). The loop over the answer
   ends where the XML does, and no one asks the reader for its error: an answer
   that is broken off leaves `error()` at 0 and a part of `changedItems()`,
   which `davitemssyncjob.h:50` describes as the items that were changed on the
   server. Only the missing token tells; an application that looks at
   the error alone and starts without a token takes the rest for deleted.
4. **An empty principal-collection-set leaves the search waiting**
   (`davprincipalsearchjob.cpp:179`; `principal_search_empty`). No REPORT is
   sent, so no handler emits the result, although the tests
   (`davprincipalsearchjobtest.cpp:78` and `:97`) expect a job whose answer
   names no set to end without an error and without results.

## What is proved

Each `*_proofs` module proves theorems about the module it extends, for all
values of its constants that satisfy the assumption stated there, which TLC
evaluates in that module's runs.

| Module | Theorem | Statement |
| --- | --- | --- |
| `ItemsListJob_proofs` | `Invariance` | `Spec => []IInv` |
| | `TypeCorrectness` | `Spec => []TypeOK`: among others, the unsigned counter never goes below 0 |
| | `CounterIsPending` | `Spec => []CountsPending`: the counter is the number of unanswered requests |
| | `NeverListedAndDeleted` | `Spec => []ListedOnceAndNotDeleted` |
| | `FailuresAreReported` | `Spec => []FailureReported` |
| | `DeletionsAreReal` | `Spec => []DeletedWasMissing` |
| | `ClassificationIsExact` | `Spec => []ClassificationExact` |
| | `Implementation` | `Spec => DeliversOneResult`, the refinement of `ResultOnce` |
| | `ResultComesOnce` | `Spec => []RO!ResultExactlyOnce`: the job has emitted once if it was started and nothing is left in flight, and never before |
| `ItemJobs_proofs` | `Invariance` | `Spec => []IInv` |
| | `TypeCorrectness` | `Spec => []TypeOK` |
| | `SuccessIsDone` | `Spec => []SuccessMeansDone` |
| | `RefusalIsSafe` | `Spec => []RefusedMeansUntouched` |
| | `ConflictsAreReported` | `Spec => []ConflictHandsOutOtherVersion` |
| | `EtagsAreFresh` | `Spec => []EtagNotOlderThanWrite` |
| | `NoLostUpdate` | `Spec => KeepsOthersEdits` |
| | `Implementation` | `Spec => ActsOnce`, the refinement of `OneEffect` by every job |
| `CollectionsFetchJob_proofs` | `Invariance` | `Spec => []IInv` |
| | `TypeCorrectness` | `Spec => []TypeOK` |
| | `NothingOnFailure` | `Spec => []FailureReturnsNothing` |
| | `HomeSetsAreRetried` | `Spec => []HomeSetFailureRetryable` |
| | `ErrorsMatchCodes` | `Spec => []ErrorMatchesCode` |
| | `TwoRoundsSuffice` | `Spec => []AtMostTwoRounds` |
| | `Completeness` | `Spec => []SuccessIsComplete` |
| | `Implementation` | `Spec => DeliversOneResult` |
| | `ResultComesOnce` | as for the item list, for each URL |
| `CollectionsMultiFetchJob_proofs` | `MultiInvariance` | `MultiSpec => []MultiIInv` |
| | `SubjobsAreCombined` | `MultiSpec => []CombinesSubjobs` |
| | `MultiTypeCorrectness` | every variable of the subjobs and of the composite stays in its type |
| | `SubjobsAreComplete`, `SubjobsReturnNothingOnFailure`, `SubjobsRetryHomeSets`, `SubjobsErrorsMatchCodes`, `SubjobsTwoRounds` | `MultiSpec => []SuccessIsComplete`, `[]FailureReturnsNothing`, `[]HomeSetFailureRetryable`, `[]ErrorMatchesCode`, `[]AtMostTwoRounds` |
| | `SubjobsDeliverOnce` | `MultiSpec => DeliversOneResult` |
| | `MultiImplementation` | `MultiSpec => MultiDeliversOneResult` |
| | `MultiResultComesOnce` | the composite has emitted exactly if it was started and no subjob is left |
| `CollectionJobs_proofs` | `Invariance` | `Spec => []IInv` |
| | `TypeCorrectness` | `Spec => []TypeOK` |
| | `SuccessIsDone` | `Spec => []SuccessMeansDone` |
| | `RefusalIsSafe` | `Spec => []RefusedMeansUntouched` |
| | `CreationsAreRead` | `Spec => []CreatedIsFetched` |
| | `Implementation` | `Spec => ActsOnce`, the refinement of `OneEffect` by every job |
| `PushJobs_proofs` | `Invariance` | `Spec => []IInv` |
| | `TypeCorrectness` | `Spec => []TypeOK` |
| | `RegistrationsHold` | `Spec => []RegistrationKnown` |
| | `UnregistrationIsReal` | `Spec => UnregisteredMeansGone` |
| | `PushesReachOthers` | `Spec => OthersAreNotified` |
| `CollectionSync_proofs` | `Invariance` | `Spec => []IInv` |
| | `TypeCorrectness` | `Spec => []TypeOK` |
| | `TokensAreEarned` | `Spec => []TokenMeansWhole` |
| | `NothingIsMissed` | `Spec => []NoChangeMissed` |
| | `Implementation` | `Spec => KeepsReplica`, the refinement of `Replica` |
| `PrincipalSearchJob_proofs` | `Invariance` | `Spec => []IInv` |
| | `TypeCorrectness` | `Spec => []TypeOK` |
| | `OneSuccessDecides` | `Spec => []OneSuccessSuffices` |
| | `ErrorsMatchCodes` | `Spec => []ErrorMatchesCode` |
| | `Implementation` | `EmptySets = FALSE` implies `Spec => DeliversOneResult` |
| | `ResultComesOnce` | `EmptySets = FALSE` implies the same as for the item list |

The two theorems with a premise state the limit that the finding
`principal_search_empty` shows to be real.
`NewCollectionsAssumption` says of the collections an application creates that
their content types come from `DavCollection::ContentType`.

**The arguments.** The properties speak of finished jobs and are not inductive:
they say nothing of the answers on their way. Each `IInv` adds what they rest
on, and its preservation is split into a lemma per action (and, where a handler
disturbs several conjuncts, per conjunct).

*Item list.* `CountInv` ties the counter to the set of pending queries, so that
it is zero exactly when the last answer has been handled, and `results` to
both. `FailInv` ties the error to the set of failed queries. `MissingInv`
follows an item that was never missing from the server into the answer to its
query and from there into `mSeenUrls`, or into a failed query. `UntouchedInv`
does the same for an untouched item's ETag: what an answer on its way says of
it is what the server has, what the job took is what the server has, its
changed mark is the comparison with the cache as it is, and its deleted mark is
the absence from `mSeenUrls`.

*Item jobs.* `EnvInv` says of the server that every version it holds is on
record, that ETags only grow, and that a URL and an ETag determine the data:
an `If-Match` that holds therefore names the very version the item came from,
which is why a PUT under it takes away nobody's edit. `JobInv` has a conjunct per
phase: an answer on its way agrees with whether its request took effect, was
refused by a precondition or never arrived as what it was (`Agrees`), a job that refreshes has stored what it holds and nothing older
than what is there (`StoredBy`), a job in conflict holds an ETag that the
server will never have again (`Outdated`). `KeepsOthersEdits` follows from the
invariant and a lemma that says in which steps a job writes at all.

*A job acts once.* For `OneEffect` each action is split by what the abstract job
sees of it: `start()`, redirects and refreshes send requests only, the server's
step is the effect, if there is any, and the handler that ends the job ends it
there. A job whose request is still in flight has had no effect, by the
invariant, which is why there is only one; and the invariant of the ended job
says that its outcome is no deceit. For the item jobs `KindInv` is added: a
fetch job succeeds without an effect, so that it must never have one.

*Collections.* The jobs of several URLs share nothing but `misled`, so the
invariant is stated of one. `Counting` ties the counter to the fetches in
flight and separates the home-set rounds from them; `Outcome` makes the error
state the sum of the failed requests; `Complete1` says that the list holds each
collection of the fetches answered so far once. `Rounds` holds because a
principal is named only in an answer to a query that asked for it.

*The composite* starts all its jobs in one step, which is no step of the jobs'
own specification; their `IInv` is preserved by it all the same (`StartedInv`,
for each job), and by every step of a subjob. `Composite` adds that the subjobs
it still has are those without a result, and that its list and its error are
those of the others: it rests on a job that has ended taking no step. The
composite's start is the `Start` of each subjob, so that each of them
implements `ResultOnce` there as well.

*Collection jobs.* For what a job reports nothing is needed of the server but
`made`: a job without an answer has changed nothing, and an answer on its way
agrees with whether its request took effect, at the URL that `locationUrl()`
reads from it, unless the job is in `misled`. `CreatedIsFetched` needs to know who stored what is there:
`Kept` says that the collection of a create job is one of the application's,
sent in a protocol that can, `Stored` that what stands under its name on the
server is what that protocol writes of it. The round trip through `Protocols`
is then two lemmas about any collection (`ColorRoundTrip`,
`ContentTypesRoundTrip`).

*Push.* A registration belongs to one endpoint for good. `TypeOK` needs bounds
beside `IInv` (`BInv`): a live registration ends after the clock and within a
lifetime of the horizon. `Holds` says of what an application knows, and of what
the answer on its way will tell it (`Told`), that it is its own and lives as
long as the date says; `Asked` ties an application's request to what it knew
when it made it, which is still what it knows.

*Sync.* Others go on between an answer and the step that takes it over.
`Reported` therefore says of an answer, and of the lists made from it, that they
are right for the members that did not change since the token that came with
them, and `Current` says the same of the data a multiget brings. `Kept`, that
the copy is right up to the token, is preserved since each member either
changed since the new token, or was due and is in the lists, or was neither and
is as it was at the old token. For `Replica` the token must also not go back:
`Ahead` says that a token on its way, or in a job, is not older than the one the
application holds. `TInv` types the answers on their way beside the variables.

*Principal search.* `Counting` as above; `Outcome` makes the success flag
the existence of a successful search and keeps the error of a failed one only
until then; `FoundInv` follows the results into the directory.

*The single result.* `ResultComesOnce` is what `ResultOnce` promises of every
state. For the item list and the composite it is a part of the invariant; for
the others it follows from the lemma that makes each step one of `ResultOnce`
or a stutter, with the fact that nothing is in flight before `start()`.

**Only model-checked** is liveness (`Terminates`, `MultiTerminates`, `CatchesUp`,
`EventuallySilent`), which is out of TLAPS' reach, as is `ENABLED`. Every
invariant and every action property of a passing run is proved; the type
invariants of all components but the item list are proved and not checked
again by a run.

## What is not modelled, and why

- The bodies of requests and answers beyond what the handlers tell apart and
  the properties a query asks for; `DavCollection`'s and `DavItem`'s content
  type, CTag and sync token as read from a listing; namespaces of elements,
  as no two names in use differ by them only; the time zone of a new
  calendar. All of this is data no decision depends on.
- `daverror.cpp` and the error texts of the jobs: wording and translation.
- Push encryption keys and the VAPID key beyond its presence: opaque strings.
- Authentication, TLS errors, user agent and proxies, which `DavManager` and
  Qt's network layer handle below the jobs.
- `DavUrl`'s serialisation, percent-encoding and user info: URLs are equal or
  different, or a host and a path where `urlFromHref()` puts them together.
- Killing a job while requests are in flight: no job implements `doKill()`.
- Redirects of what only reads: a REPORT or PROPFIND that becomes a GET has an
  answer that is no multistatus, which the modules of the item list, the
  collections and the sync have among their answers; `PrincipalSearchJob` takes
  its requests for not redirected. Redirects of registrations: the servers of `PushJobs` send
  none; an unregistration that Qt turned into a GET would be a success that
  leaves the registration, like that of the jobs in `misled`.
- `FakeServer` and the tests: a script of answers. The models' servers do what
  the script can and more.
- Five hazards have no property, for the reasons PROJECT.json gives beside them:
  an item without an ETag is stored unconditionally, a MOVE overwrites what it
  did not see, the owner of the cache may clear a mark it did not mean to, a
  server that limits every sync answer is never read, and the jobs that modify
  and delete do not see a failure that a 207 answer tells by the status of a
  response. The code promises nothing
  else there that a model could refute.

## What could come next

1. `DavItemsListJob` with a fetch job in the place of the sync job, for servers
   without sync tokens, against `Replica`: the ETag cache is then the token.
2. `DavPushDontNotify` in the requests of `ItemJobs`, whose answers can be lost:
   who was told of a change that its client repeats.
