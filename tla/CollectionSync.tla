--------------------------- MODULE CollectionSync ---------------------------
(***************************************************************************)
(* DavItemsSyncJob (src/src/common/davitemssyncjob.cpp), which asks for    *)
(* what changed in a collection since a sync token, and DavItemsFetchJob   *)
(* (davitemsfetchjob.cpp), which fetches the changed items by one multiget *)
(* REPORT, as an application uses them to keep a copy of the collection    *)
(* while other clients change it.                                          *)
(*                                                                         *)
(* The server stamps every change with its clock: the ETag of an item is   *)
(* the time it was stored, a sync token the time of the answer that gave   *)
(* it.  The application runs one job at a time, and takes over what the    *)
(* jobs found when none of them failed and a new token came with it.       *)
(***************************************************************************)
EXTENDS Protocols, DavJobBase

CONSTANTS
    Ids,                \* URLs of the members of the collection
    Subcollections,     \* SUBSET Ids: members that are collections
    FailCodes,          \* HTTP statuses of answers that fail
    MaxChanges,         \* bound on the changes of other clients
    MaxFaults           \* bound on the answers that are not as they should be

ASSUME CollectionSyncAssumption ==
    /\ Subcollections \subseteq Ids
    /\ FailCodes \subseteq {0} \cup 400 .. 599
    /\ MaxChanges \in Nat /\ MaxFaults \in Nat

VARIABLES
    server,             \* [Ids -> ETag of the member, or None]
    changedAt,          \* [Ids -> when the member was last stored or removed]
    clock, faults,
    reply,              \* NoReply, Sent or the answer on its way
    \* The application:
    phase, protocol,    \* what it is doing; the protocol of the collection
    mirror,             \* [Ids -> ETag of its copy, or None]
    token,              \* the newest sync token it took over
    \* The sync job:
    mSyncToken, mChangedItems, mDeletedItems, mNewSyncToken,
    \* The fetch job:
    mUrls, mItems,
    \* Of the job that runs:
    error, latestResponseCode,
    owed                \* history: what a whole answer to the sync job holds

envVars == <<server, changedAt, clock, faults>>
appVars == <<phase, protocol, mirror, token>>
syncVars == <<mSyncToken, mChangedItems, mDeletedItems, mNewSyncToken>>
fetchVars == <<mUrls, mItems>>
errorVars == <<error, latestResponseCode>>
vars == <<envVars, reply, appVars, syncVars, fetchVars, errorVars, owed>>

\* No ETag, no token, no data.
None == 0
Time == 1 .. MaxChanges + 1

\* A DAV:response: the HTTP status it may hold, the propstat whose status is
\* 200 if there is one, and from that the resource type and the ETag.  In a
\* multiget answer data is the content, tag the name of the element that holds
\* it, and ok is about the first propstat.
Response(id, status, ok, collection, etag) ==
    [id |-> id, status |-> status, ok |-> ok, collection |-> collection,
     etag |-> etag, tag |-> NoText, data |-> None]
Responses ==
    [id : Ids, status : {0, 403, 404}, ok : BOOLEAN, collection : BOOLEAN,
     etag : Time \cup {None}, tag : {NoText, "calendar-data", "address-data"},
     data : Time \cup {None}]

\* early: the responses before the first one that cannot be read, if any.
Multistatus(responses, early, newToken) ==
    [state |-> "answered", netError |-> FALSE, status |-> 207,
     multistatus |-> TRUE, responses |-> responses, early |-> early,
     token |-> newToken]
NoMultistatus ==
    [Multistatus({}, {}, None) EXCEPT !.multistatus = FALSE]
Failure(status) ==
    [NoMultistatus EXCEPT !.netError = TRUE, !.status = status]

NoReply == [state |-> "none"]
Sent == [state |-> "sent"]
Answered == reply.state = "answered"

Item == [id : Ids, etag : Time]
FetchedItem == [id : Ids, etag : Time, data : Time]

TypeOK ==
    /\ server \in [Ids -> Time \cup {None}]
    /\ changedAt \in [Ids -> Time]
    /\ clock \in Time /\ faults \in 0 .. MaxFaults
    /\ reply.state \in {"none", "sent", "answered"}
    /\ Answered => reply.early \subseteq reply.responses
                   /\ reply.responses \subseteq Responses
    /\ phase \in {"idle", "sync", "synced", "fetch", "fetched"}
    /\ protocol \in Protocol
    /\ mirror \in [Ids -> Time \cup {None}]
    /\ {token, mSyncToken, mNewSyncToken} \subseteq Time \cup {None}
    /\ mChangedItems \subseteq Item
    /\ mDeletedItems \subseteq Ids
    /\ mUrls \subseteq Ids
    /\ mItems \subseteq FetchedItem
    /\ error \in ErrorNumber /\ latestResponseCode \in Nat
    /\ owed \subseteq Responses

Init ==
    /\ \E there \in SUBSET Ids :
        server = [id \in Ids |-> IF id \in there THEN 1 ELSE None]
    /\ changedAt = [id \in Ids |-> 1]
    /\ clock = 1 /\ faults = 0
    /\ reply = NoReply
    /\ phase = "idle" /\ protocol \in Protocol
    /\ mirror = [id \in Ids |-> None]
    /\ token = None
    /\ mSyncToken = None /\ mChangedItems = {} /\ mDeletedItems = {}
    /\ mNewSyncToken = None
    /\ mUrls = {} /\ mItems = {}
    /\ error = NO_ERR /\ latestResponseCode = 0
    /\ owed = {}

-----------------------------------------------------------------------------
(* DavItemsSyncJob                                                         *)

\* A new job, and start(): the first time without a token.
SyncStart ==
    /\ phase = "idle"
    /\ phase' = "sync"
    /\ reply' = Sent
    /\ mSyncToken' = token
    /\ mChangedItems' = {} /\ mDeletedItems' = {} /\ mNewSyncToken' = None
    /\ error' = NO_ERR /\ latestResponseCode' = 0
    /\ UNCHANGED <<envVars, protocol, mirror, token, fetchVars, owed>>

IsDeleted(response) == response.status = 404

\* Faulty variant: 403 is like any other status.
NeverUnsupported(response) == FALSE

\* An unsupported member collection.
IsUnsupported(response) == response.status = 403

\* Where the job gives up: no href, or neither a status it knows nor
\* properties.
IsUnreadable(response) ==
    ~IsDeleted(response) /\ ~IsUnsupported(response) /\ ~response.ok

\* Faulty variant: the resource type is not looked at.
IsChangedMember(response) ==
    /\ ~IsDeleted(response) /\ ~IsUnsupported(response)
    /\ response.ok

IsChangedItem(response) ==
    /\ ~IsDeleted(response) /\ ~IsUnsupported(response)
    /\ response.ok /\ ~response.collection

ChangedItems(responses) ==
    {[id |-> r.id, etag |-> r.etag] : r \in {x \in responses : IsChangedItem(x)}}

\* Faulty variant: only changes are looked for.
NoDeletedItems(responses) == {}

DeletedItems(responses) == {r.id : r \in {x \in responses : IsDeleted(x)}}

JobFails(number, status) ==
    /\ error' = number
    /\ latestResponseCode' = status

\* Faulty variant: the token is looked up before the responses are read.
SyncReadsTokenFirst ==
    LET unreadable == {r \in reply.responses : IsUnreadable(r)}
        read == IF unreadable = {} THEN reply.responses
                                   ELSE reply.early \ unreadable
    IN  /\ mChangedItems' = ChangedItems(read)
        /\ mDeletedItems' = DeletedItems(read)
        /\ mNewSyncToken' = reply.token
        /\ IF unreadable = {}
           THEN UNCHANGED errorVars
           ELSE JobFails("ERR_MALFORMED_RESPONSE", latestResponseCode)

\* The loop over the elements of the multistatus.  The token follows the
\* responses; a response that cannot be read ends the job with an error and
\* leaves it with what it read before.
SyncReads ==
    LET unreadable == {r \in reply.responses : IsUnreadable(r)}
        read == IF unreadable = {} THEN reply.responses
                                   ELSE reply.early \ unreadable
    IN  /\ mChangedItems' = ChangedItems(read)
        /\ mDeletedItems' = DeletedItems(read)
        /\ IF unreadable = {}
           THEN mNewSyncToken' = reply.token /\ UNCHANGED errorVars
           ELSE /\ JobFails("ERR_MALFORMED_RESPONSE", latestResponseCode)
                /\ UNCHANGED mNewSyncToken

\* DavItemsSyncJobPrivate::davJobFinished(reply)
SyncFinished ==
    /\ phase = "sync" /\ Answered
    /\ \/ /\ RequestFailed(reply.netError, reply.status)
          /\ JobFails("ERR_PROBLEM_WITH_REQUEST", reply.status)
          /\ UNCHANGED syncVars
       \/ /\ ~RequestFailed(reply.netError, reply.status)
          /\ ~reply.multistatus
          /\ JobFails("ERR_MALFORMED_RESPONSE", latestResponseCode)
          /\ UNCHANGED syncVars
       \/ /\ ~RequestFailed(reply.netError, reply.status)
          /\ reply.multistatus
          /\ SyncReads
          /\ UNCHANGED mSyncToken
    /\ phase' = "synced"
    /\ reply' = NoReply
    /\ UNCHANGED <<envVars, protocol, mirror, token, fetchVars, owed>>

-----------------------------------------------------------------------------
(* DavItemsFetchJob                                                        *)

\* A new job for some URLs, and start().
FetchStart(urls) ==
    /\ mUrls' = urls /\ mItems' = {}
    /\ latestResponseCode' = 0
    /\ IF UseMultiget(protocol)
       THEN error' = NO_ERR /\ phase' = "fetch" /\ reply' = Sent
       ELSE error' = "ERR_NO_MULTIGET" /\ phase' = "fetched" /\ UNCHANGED reply

\* Responses without a 200 propstat are passed over, and those without data in
\* the element the protocol has for it.
FetchedItems(responses) ==
    {[id |-> r.id, etag |-> r.etag, data |-> r.data] :
        r \in {x \in responses : /\ x.ok
                                 /\ x.tag = DataTagName(protocol)
                                 /\ x.data # None}}

\* DavItemsFetchJobPrivate::davJobFinished(reply).  A body that is no
\* multistatus holds no item.
FetchFinished ==
    /\ phase = "fetch" /\ Answered
    /\ IF RequestFailed(reply.netError, reply.status)
       THEN JobFails("ERR_PROBLEM_WITH_REQUEST", reply.status) /\ UNCHANGED mItems
       ELSE mItems' = FetchedItems(reply.responses) /\ UNCHANGED errorVars
    /\ phase' = "fetched"
    /\ reply' = NoReply
    /\ UNCHANGED <<envVars, protocol, mirror, token, syncVars, mUrls, owed>>

-----------------------------------------------------------------------------
(* The application                                                         *)

\* What the sync job found that the copy does not have.
Stale == {id \in Ids : \E item \in mChangedItems :
                           item.id = id /\ item.etag # mirror[id]}

\* Before its first token a sync lists everything there is: the application
\* drops what is not listed.
Dropped ==
    IF mSyncToken = None THEN {id \in Ids : \A item \in mChangedItems : item.id # id}
                         ELSE mDeletedItems

\* A sync that failed or brought no token is repeated, from the beginning
\* when the server refused the token.
GiveUpSync ==
    /\ phase = "synced" /\ (error # NO_ERR \/ mNewSyncToken = None)
    /\ phase' = "idle"
    /\ token' = IF latestResponseCode = 403 THEN None ELSE token
    /\ UNCHANGED <<envVars, reply, protocol, mirror, syncVars, fetchVars,
                   errorVars, owed>>

FetchChanged ==
    /\ phase = "synced" /\ error = NO_ERR /\ mNewSyncToken # None
    /\ IF Stale # {} THEN FetchStart(Stale)
       ELSE /\ phase' = "fetched" /\ mUrls' = {} /\ mItems' = {}
            /\ UNCHANGED <<errorVars, reply>>
    /\ UNCHANGED <<envVars, protocol, mirror, token, syncVars, owed>>

\* All of it is taken over, or, when an item did not come, nothing.
TakeOver ==
    /\ phase = "fetched"
    /\ phase' = "idle"
    /\ IF error = NO_ERR /\ mUrls \subseteq {item.id : item \in mItems}
       THEN /\ mirror' = [id \in Ids |->
                   IF id \in Dropped THEN None
                   ELSE IF id \in mUrls
                   THEN (CHOOSE item \in mItems : item.id = id).data
                   ELSE mirror[id]]
            /\ token' = mNewSyncToken
       ELSE UNCHANGED <<mirror, token>>
    /\ UNCHANGED <<envVars, reply, protocol, syncVars, fetchVars, errorVars, owed>>

-----------------------------------------------------------------------------
(* The server and its other clients                                        *)

\* What a server says of a member: subcollections are reported with 403 or by
\* their resource type.
Says(id) ==
    IF server[id] = None THEN {Response(id, 404, FALSE, FALSE, None)}
    ELSE IF id \in Subcollections
    THEN {Response(id, 403, FALSE, FALSE, None),
          Response(id, 0, TRUE, TRUE, server[id])}
    ELSE {Response(id, 0, TRUE, FALSE, server[id])}

\* The members an answer to the job's token is about.
Due ==
    {id \in Ids : IF mSyncToken = None THEN server[id] # None
                                       ELSE changedAt[id] > mSyncToken}

Fault == faults < MaxFaults /\ faults' = faults + 1

\* A whole answer, one that is broken off after some responses, or one with a
\* response among them that has neither status nor properties (such as the 507
\* of a server that limits the number of results).
ServerSyncs ==
    /\ phase = "sync" /\ reply = Sent
    /\ \E responses \in {f \in SUBSET UNION {Says(id) : id \in Due} :
                            \A id \in Due : Cardinality({r \in f : r.id = id}) = 1} :
        /\ owed' = responses
        /\ \/ /\ reply' = Multistatus(responses, {}, clock)
              /\ UNCHANGED faults
           \/ /\ Fault
              /\ \E some \in SUBSET responses :
                    \/ reply' = Multistatus(some, {}, None)
                    \/ \E id \in Ids :
                        reply' = Multistatus(
                            responses \cup {Response(id, 0, FALSE, FALSE, None)},
                            some, clock)
    /\ UNCHANGED <<server, changedAt, clock, appVars, syncVars, fetchVars,
                   errorVars>>

\* The answer to the multiget: for every href the properties asked for, the
\* data in the element of the server's kind.  Some servers leave out items or
\* their data.
ServerSends ==
    /\ phase = "fetch" /\ reply = Sent
    /\ LET request == ItemsReportQuery(protocol, mUrls)
           tag == IF protocol = "CalDav" THEN "calendar-data" ELSE "address-data"
           bare(id) == Response(id, 0, TRUE, FALSE, server[id])
           item(id) == IF tag \in request.props
                       THEN [bare(id) EXCEPT !.tag = tag, !.data = server[id]]
                       ELSE bare(id)
           gone(id) == Response(id, 0, FALSE, FALSE, None)
           whole == {IF server[id] # None THEN item(id) ELSE gone(id) :
                        id \in request.hrefs}
       IN  \/ reply' = Multistatus(whole, {}, None) /\ UNCHANGED faults
           \/ /\ Fault
              /\ \E id \in {i \in request.hrefs : server[i] # None} :
                    \E instead \in SUBSET {bare(id)} :
                        reply' = Multistatus((whole \ {item(id)}) \cup instead,
                                             {}, None)
    /\ UNCHANGED <<server, changedAt, clock, appVars, syncVars, fetchVars,
                   errorVars, owed>>

\* The request fails, or a success comes without a multistatus; the server
\* may refuse a token it does not know any more with 403.
ServerFails ==
    /\ reply = Sent
    /\ Fault
    /\ \/ \E status \in FailCodes : reply' = Failure(status)
       \/ reply' = NoMultistatus
       \/ phase = "sync" /\ mSyncToken # None /\ reply' = Failure(403)
    /\ UNCHANGED <<server, changedAt, clock, appVars, syncVars, fetchVars,
                   errorVars, owed>>

\* Another client stores or removes a member.
OtherClient(id) ==
    /\ clock <= MaxChanges
    /\ clock' = clock + 1
    /\ \/ server' = [server EXCEPT ![id] = clock + 1]
       \/ server[id] # None /\ server' = [server EXCEPT ![id] = None]
    /\ changedAt' = [changedAt EXCEPT ![id] = clock + 1]
    /\ UNCHANGED <<faults, reply, appVars, syncVars, fetchVars, errorVars, owed>>

-----------------------------------------------------------------------------
Handler == SyncFinished \/ FetchFinished
Application == SyncStart \/ GiveUpSync \/ FetchChanged \/ TakeOver
Server == ServerSyncs \/ ServerSends \/ ServerFails

Next == Handler \/ Application \/ Server \/ \E id \in Ids : OtherClient(id)

Spec == Init /\ [][Next]_vars

\* Every request is answered or given up in the end, the event loop delivers
\* every finished reply, and the application goes on.
FairSpec == Spec /\ WF_vars(Server) /\ WF_vars(Handler) /\ WF_vars(Application)

-----------------------------------------------------------------------------
(* Properties                                                              *)

\* What the application's copy of a member should be.
Wanted(id) == IF id \in Subcollections THEN None ELSE server[id]

\* A sync job that ends without an error has read all that changed.
SuccessIsWhole ==
    phase = "synced" /\ error = NO_ERR =>
        mChangedItems = ChangedItems(owed) /\ mDeletedItems = DeletedItems(owed)

\* The same of a job that also has a new token: an answer of which a part is
\* lost or unreadable never ends with one, so that the next sync asks again.
TokenMeansWhole ==
    phase = "synced" /\ mNewSyncToken # None =>
        /\ error = NO_ERR
        /\ mChangedItems = ChangedItems(owed) /\ mDeletedItems = DeletedItems(owed)

\* No change is ever missed: whatever last changed before the token that the
\* application holds is in its copy just as it is on the server.
NoChangeMissed ==
    \A id \in Ids : changedAt[id] <= token => mirror[id] = Wanted(id)

\* The copy implements Replica: whatever answers fail, break off or leave things
\* out, each sync that is taken over brings the copy from one point of the
\* collection's history to a later one, and nothing else touches it.
Copy == INSTANCE Replica WITH Hidden <- Subcollections

KeepsReplica == Copy!Spec

\* Once the others stop, and the answers are as they should be, the copy
\* becomes equal to the collection, whatever went wrong before.
CatchesUp ==
    UseMultiget(protocol) => <>[](\A id \in Ids : mirror[id] = Wanted(id))

=============================================================================
