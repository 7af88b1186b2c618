--------------------------- MODULE CollectionJobs ---------------------------
(***************************************************************************)
(* DavCollectionCreateJob, DavCollectionModifyJob and                      *)
(* DavCollectionDeleteJob (src/src/common/davcollection*job.cpp), several  *)
(* at once on the collections of one home set that other clients change    *)
(* too, and what DavCollectionsFetchJob would read of a collection.        *)
(*                                                                         *)
(* A collection is known to the server by its WebDAV properties.  The jobs *)
(* send them, and the fetch job reads them, in the form of the protocol    *)
(* (Protocols).  by says who stored the collection or changed it last.     *)
(*                                                                         *)
(* DavManager lets Qt follow redirects (NoLessSafeRedirectPolicy,          *)
(* davmanager.cpp:31), so no handler here is ever given one: a 307 or 308  *)
(* repeats the request at the new URL, a 301, 302 or 303 becomes a GET     *)
(* there, and a redirect Qt cannot or will not follow is a reply error.    *)
(***************************************************************************)
EXTENDS Protocols, DavJobBase

CONSTANTS
    Jobs, Others,       \* the application's jobs; other clients
    Urls,               \* of collections below the home set
    Home,               \* [Urls -> Urls]: where requests for a URL end after
                        \* the server's redirects, itself if there are none
    NoLocation,         \* not a URL: an answer without a Location header
    Kinds,              \* [Jobs -> SUBSET of the kinds]: what a job may be
    NewCollections,     \* DavCollections the application creates
    Changes,            \* properties it sets and removes with one job
    RefusalCodes,       \* HTTP statuses of requests that fail
    Granted,            \* what a server tells of the user's privileges, for
                        \* the URLs it tells them of
    Push                \* what it tells of push: [Urls -> [topic, transports]]

ASSUME CollectionJobsAssumption ==
    /\ NoLocation \notin Urls
    /\ Home \in [Urls -> Urls]
    /\ \A u \in Urls : Home[Home[u]] = Home[u]
    /\ Kinds \in [Jobs -> SUBSET {"create", "modify", "delete"}]
    /\ Jobs \cap Others = {}
    /\ RefusalCodes \subseteq {0} \cup 300 .. 599
    /\ DOMAIN Granted \subseteq Urls
    /\ DOMAIN Push = Urls

VARIABLES
    protocol,           \* of the URLs
    server,             \* [Urls -> Resource, or Gone]
    othersDone,         \* the other clients that made their one change
    job,                \* [Jobs -> JobState]
    reply,              \* [Jobs -> NoReply or the answer on its way]
    made,               \* history: [Jobs -> SUBSET Urls], where the request
                        \* of a job took effect
    misled              \* history: the jobs whose request had no effect but an
                        \* answer that no handler tells from a success

historyVars == <<made, misled>>
vars == <<protocol, server, othersDone, job, reply, historyVars>>

Gone == [resourcetype |-> {}]
Resource(prop, by) ==
    [resourcetype |-> prop.resourcetype, displayname |-> prop.displayname,
     color |-> prop.color, comps |-> prop.comps, by |-> by]

Present(url) == server[url] # Gone

AllPrivileges == {"all"}
NoPushSupport == [topic |-> NoText, vapidPublicKey |-> NoText]

\* DavCollection::DavCollection(): all privileges, until they are set.
DavCollection(displayName, color, contentTypes) ==
    [displayName |-> displayName, color |-> color, contentTypes |-> contentTypes,
     privileges |-> AllPrivileges, davPushSupport |-> NoPushSupport]

ContentType ==
    {"Events", "Todos", "Contacts", "FreeBusy", "Journal", "Calendar", "Timezone"}

ASSUME NewCollectionsAssumption ==
    \A c \in NewCollections :
        /\ c = DavCollection(c.displayName, c.color, c.contentTypes)
        /\ c.color = [rgb |-> c.color.rgb, alpha |-> c.color.alpha]
        /\ c.contentTypes \subseteq ContentType

\* What the other clients create.
Plain == DavCollection("other", NoColor, {"Events"})

NoCollection == DavCollection(NoText, NoColor, {})
NoChange == [set |-> <<>>, remove |-> {}]

NewJob(url) ==
    [kind |-> "none", phase |-> "new", url |-> url,
     mCollection |-> NoCollection, change |-> NoChange,
     error |-> NO_ERR, latestResponseCode |-> 0]

NoReply == [state |-> "none"]

Done(j) == job[j].phase = "done"
Succeeded(j) == Done(j) /\ job[j].error = NO_ERR

TypeOK ==
    /\ protocol \in Protocol
    /\ \A u \in Urls : Present(u) => server[u].by \in Jobs \cup Others
    /\ othersDone \subseteq Others
    /\ \A j \in Jobs :
        /\ job[j].kind \in {"none", "create", "modify", "delete"}
        /\ job[j].phase \in {"new", "request", "done"}
        /\ job[j].url \in Urls
        /\ job[j].error \in ErrorNumber
        /\ reply[j] # NoReply => job[j].phase = "request"
    /\ made \in [Jobs -> SUBSET Urls]
    /\ misled \subseteq Jobs

Init ==
    /\ protocol \in Protocol
    /\ server = [u \in Urls |-> Gone]
    /\ othersDone = {}
    /\ \E u \in Urls : job = [j \in Jobs |-> NewJob(u)]
    /\ reply = [j \in Jobs |-> NoReply]
    /\ made = [j \in Jobs |-> {}]
    /\ misled = {}

-----------------------------------------------------------------------------
(* The application starts the jobs                                         *)

\* DavManager::sendDavRequest(), or deleteResource(): a request is in flight.
Sends(state) == [state EXCEPT !.phase = "request"]

EndsAtOnce(state, number) == [state EXCEPT !.phase = "done", !.error = number]

\* DavCollectionCreateJob::start()
CreateStarted(state) ==
    IF UseMultiget(protocol) THEN Sends(state)
                             ELSE EndsAtOnce(state, "ERR_NO_MULTIGET")

\* DavCollectionModifyJob::start()
ModifyStarted(state) ==
    IF state.change = NoChange
    THEN EndsAtOnce(state, "ERR_COLLECTIONMODIFY_NO_PROPERITES")
    ELSE Sends(state)

Starts(j, state) ==
    /\ job' = [job EXCEPT ![j] = state]
    /\ UNCHANGED <<protocol, server, othersDone, reply, historyVars>>

StartCreate(j) ==
    /\ job[j].phase = "new" /\ "create" \in Kinds[j]
    /\ \E u \in Urls, c \in NewCollections :
        Starts(j, CreateStarted([NewJob(u) EXCEPT !.kind = "create",
                                                  !.mCollection = c]))

StartModify(j) ==
    /\ job[j].phase = "new" /\ "modify" \in Kinds[j]
    /\ \E u \in Urls, c \in Changes \cup {NoChange} :
        Starts(j, ModifyStarted([NewJob(u) EXCEPT !.kind = "modify",
                                                  !.change = c]))

\* DavCollectionDeleteJob::start()
StartDelete(j) ==
    /\ job[j].phase = "new" /\ "delete" \in Kinds[j]
    /\ \E u \in Urls : Starts(j, Sends([NewJob(u) EXCEPT !.kind = "delete"]))

-----------------------------------------------------------------------------
(* The server and its other clients                                        *)

\* url: reply->url(), that of the request after redirects.  propstats: the
\* statuses within the answer to a PROPPATCH.
Answer(url, netError, status, location, propstats) ==
    [state |-> "answered", url |-> url, netError |-> netError, status |-> status,
     location |-> location, propstats |-> propstats]

\* The HTTP layer turns every status from 400 on into a reply error.
Answers(j, status, location, propstats) ==
    reply' = [reply EXCEPT ![j] =
        Answer(Home[job[j].url], status >= 400, status, location, propstats)]

InFlight(j) == job[j].phase = "request" /\ reply[j] = NoReply
IsRequest(j, kind) == job[j].kind = kind /\ InFlight(j)

TakesEffect(j, url, resource) ==
    /\ server' = [server EXCEPT ![url] = resource]
    /\ made' = [made EXCEPT ![j] = @ \cup {url}]
    /\ UNCHANGED <<protocol, othersDone, job, misled>>

Refuses(j, status, propstats) ==
    /\ Answers(j, status, NoLocation, propstats)
    /\ UNCHANGED <<protocol, server, othersDone, job, historyVars>>

\* Nothing happens, and the answer looks as if it had.
Misleads(j, status) ==
    /\ Answers(j, status, NoLocation, {})
    /\ misled' = misled \cup {j}
    /\ UNCHANGED <<protocol, server, othersDone, job, made>>

\* The collection is made where the request ends, or where the Location header
\* says; there must be none yet.
ServerMkCol(j) ==
    /\ IsRequest(j, "create")
    /\ LET home == Home[job[j].url]
       IN  \/ \E u \in Urls, location \in Urls \cup {NoLocation} :
                /\ Home[u] = u /\ ~Present(u)
                /\ location = u \/ (location = NoLocation /\ u = home)
                /\ TakesEffect(j, u,
                       Resource(WriteMkCol(protocol, job[j].mCollection), j))
                /\ Answers(j, 201, location, {})
           \/ Present(home) /\ Refuses(j, 405, {})

\* The request was redirected with a 301, 302 or 303: what arrives is a GET.
FollowedAsGet(j) ==
    /\ InFlight(j)
    /\ Home[job[j].url] # job[j].url
    /\ IF Present(Home[job[j].url]) THEN Misleads(j, 200) ELSE Refuses(j, 404, {})

Named(change) == DOMAIN change.set \cup change.remove

\* The instructions of a PROPPATCH are followed in the order of the document.
Changed(resource, change, by) ==
    LET value(prop, old, none) ==
            IF prop \in change.remove THEN none
            ELSE IF prop \in DOMAIN change.set THEN change.set[prop]
            ELSE old
    IN  [resource EXCEPT
            !.displayname = value("displayname", @, NoText),
            !.color = value("calendar-color", @, <<>>),
            !.by = by]

\* All the properties are changed or none is: then 403 stands beside those
\* that were refused and 424 beside the others, or the one response has a
\* status of its own and no propstat at all.
ServerPropPatch(j) ==
    /\ IsRequest(j, "modify")
    /\ LET url == Home[job[j].url]
           change == job[j].change
       IN  \/ /\ Present(url)
              /\ TakesEffect(j, url, Changed(server[url], change, j))
              /\ Answers(j, 207, NoLocation, {200})
           \/ /\ Present(url)
              /\ \E refused \in SUBSET Named(change) \ {{}} :
                    Refuses(j, 207, IF refused = Named(change) THEN {403}
                                                               ELSE {403, 424})
           \/ Present(url) /\ Misleads(j, 207)
           \/ ~Present(url) /\ Refuses(j, 404, {})

\* A member that cannot be removed keeps the collection there: the 207 names
\* it.
ServerDelete(j) ==
    /\ IsRequest(j, "delete")
    /\ LET url == Home[job[j].url]
       IN  \/ /\ Present(url)
              /\ TakesEffect(j, url, Gone)
              /\ Answers(j, 204, NoLocation, {})
           \/ Present(url) /\ Misleads(j, 207)
           \/ ~Present(url) /\ Refuses(j, 404, {})

\* A request that never takes effect: refused, lost on its way, or redirected
\* more often or to another place than Qt follows.
RequestFails(j) ==
    /\ InFlight(j)
    /\ \E status \in RefusalCodes :
        reply' = [reply EXCEPT ![j] =
                     Answer(Home[job[j].url], TRUE, status, NoLocation, {})]
    /\ UNCHANGED <<protocol, server, othersDone, job, historyVars>>

\* The answer is lost or cut off after its status line.
AnswerLost(j) ==
    /\ reply[j] # NoReply /\ ~reply[j].netError
    /\ \E status \in {0, reply[j].status} :
        reply' = [reply EXCEPT ![j].netError = TRUE, ![j].status = status]
    /\ UNCHANGED <<protocol, server, othersDone, job, historyVars>>

OtherClient(o) ==
    /\ o \notin othersDone
    /\ othersDone' = othersDone \cup {o}
    /\ \E u \in {v \in Urls : Home[v] = v} :
        \/ ~Present(u) /\ server' = [server EXCEPT ![u] =
                              Resource(CaldavMkCol(Plain), o)]
        \/ Present(u) /\ server' = [server EXCEPT ![u] = Gone]
        \/ Present(u) /\ \E c \in Changes :
              server' = [server EXCEPT ![u] = Changed(@, c, o)]
    /\ UNCHANGED <<protocol, job, reply, historyVars>>

-----------------------------------------------------------------------------
(* The handlers.  Each consumes the answer to the request in flight.       *)

Becomes(j, state) ==
    /\ job' = [job EXCEPT ![j] = state]
    /\ reply' = [reply EXCEPT ![j] = NoReply]
    /\ UNCHANGED <<protocol, server, othersDone, historyVars>>

HasAnswer(j, kind) == job[j].kind = kind /\ reply[j] # NoReply

Ends(state) == [state EXCEPT !.phase = "done"]

Fails(state, number, status) ==
    [state EXCEPT !.phase = "done", !.error = number, !.latestResponseCode = status]

\* Faulty variant: the URL is always the one that was asked.
LocationIgnored(r) == r.url

\* Utils::locationUrl(): without a Location, the URL that was asked.
LocationUrl(r) == IF r.location = NoLocation THEN r.url ELSE r.location

\* Faulty variant: the reply's own error is not looked at.
CreateFinishedByStatus(j) ==
    /\ HasAnswer(j, "create")
    /\ LET r == reply[j]
       IN  Becomes(j, IF r.status >= 400
                      THEN Fails(job[j], "ERR_COLLECTIONCREATE", r.status)
                      ELSE Ends([job[j] EXCEPT !.url = LocationUrl(r)]))

\* DavCollectionCreateJobPrivate::davJobFinished(reply).  Its branch for
\* redirects, with mRedirectCount, is not reached: Qt follows a redirect or
\* ends with an error.
CreateFinished(j) ==
    /\ HasAnswer(j, "create")
    /\ LET r == reply[j]
       IN  Becomes(j, IF r.netError \/ r.status >= 400
                      THEN Fails(job[j], "ERR_COLLECTIONCREATE", r.status)
                      ELSE Ends([job[j] EXCEPT !.url = LocationUrl(r)]))

\* Faulty variant: a success is taken for an error.
HasErrorSwapped(propstats) == \E status \in propstats : status = 200

\* Whether the loop over the propstats finds one that is not a success.
HasError(propstats) == \E status \in propstats : status # 200

\* DavCollectionModifyJobPrivate::davJobFinished(reply): a refused property
\* leaves the response code as it was.
ModifyFinished(j) ==
    /\ HasAnswer(j, "modify")
    /\ LET r == reply[j]
       IN  Becomes(j,
             IF RequestFailed(r.netError, r.status)
             THEN Fails(job[j], "ERR_COLLECTIONMODIFY", r.status)
             ELSE IF HasError(r.propstats)
             THEN Fails(job[j], "ERR_COLLECTIONMODIFY_RESPONSE",
                        job[j].latestResponseCode)
             ELSE Ends(job[j]))

\* DavCollectionDeleteJobPrivate::davJobFinished(reply)
DeleteFinished(j) ==
    /\ HasAnswer(j, "delete")
    /\ Becomes(j, IF reply[j].netError
                  THEN Fails(job[j], "ERR_COLLECTIONDELETE", reply[j].status)
                  ELSE Ends(job[j]))

-----------------------------------------------------------------------------
(* What DavCollectionsFetchJob reads of a collection                       *)

\* #RRGGBBAA is put in the order QColor reads.
ReadColor(color) ==
    CASE Len(color) = 0 -> NoColor
      [] Len(color) = 1 -> [rgb |-> color[1], alpha |-> Opaque]
      [] Len(color) = 2 -> [rgb |-> color[1], alpha |-> color[2]]

\* The privileges that are known by name.  An element has a name and, if it is
\* an aggregate, parts: what the innermost elements in it are called.
Privileges ==
    {"read", "write", "write-properties", "write-content", "unlock", "read-acl",
     "read-current-user-privilege-set", "write-acl", "bind", "unbind", "all"}

\* Utils::parsePrivilege(): an aggregate counts for its parts only.
ParsePrivilege(element) ==
    Privileges \cap (IF element.parts = {} THEN {element.name} ELSE element.parts)

\* Utils::extractPrivileges()
ExtractPrivileges(elements) == UNION {ParsePrivilege(e) : e \in elements}

\* Utils::extractDavPushSupport(): there must be a topic, and web-push among
\* the transports with a key.
ExtractDavPushSupport(topic, transports) ==
    IF topic = NoText \/ "web-push" \notin DOMAIN transports
       \/ transports["web-push"] = NoText
    THEN NoPushSupport
    ELSE [topic |-> topic, vapidPublicKey |-> transports["web-push"]]

\* The DavCollection made from the properties the protocol asks for.
Fetched(url) ==
    LET resource == server[url]
        asksFor(prop) == prop \in CollectionsQuery(protocol)
        asked(prop, value, none) == IF asksFor(prop) THEN value ELSE none
        collection == DavCollection(
            asked("displayname", resource.displayname, NoText),
            ReadColor(asked("calendar-color", resource.color, <<>>)),
            CollectionContentTypes(protocol, resource.resourcetype,
                asked("supported-calendar-component-set", resource.comps, {})))
    IN  [collection EXCEPT
            !.privileges =
                IF asksFor("current-user-privilege-set") /\ url \in DOMAIN Granted
                THEN ExtractPrivileges(Granted[url]) ELSE AllPrivileges,
            !.davPushSupport =
                ExtractDavPushSupport(asked("topic", Push[url].topic, NoText),
                                      asked("transports", Push[url].transports, <<>>))]

IsListed(url) == Present(url) /\ ContainsCollection(protocol, server[url].resourcetype)

-----------------------------------------------------------------------------

Finished == (\A j \in Jobs : Done(j)) /\ UNCHANGED vars

Next ==
    \/ \E j \in Jobs :
        \/ StartCreate(j) \/ StartModify(j) \/ StartDelete(j)
        \/ ServerMkCol(j) \/ ServerPropPatch(j) \/ ServerDelete(j)
        \/ FollowedAsGet(j) \/ RequestFails(j) \/ AnswerLost(j)
        \/ CreateFinished(j) \/ ModifyFinished(j) \/ DeleteFinished(j)
    \/ \E o \in Others : OtherClient(o)
    \/ Finished

Spec == Init /\ [][Next]_vars

-----------------------------------------------------------------------------
(* Properties                                                              *)

\* A job without an error did what it was asked to, unless its answer was
\* misleading: its one request took effect, and nowhere else than the job says.
\* For a create job that is the URL of collectionUrl(), whatever redirects and
\* Location headers came; the others keep the URL they were given.
SuccessMeansDone ==
    \A j \in Jobs : Succeeded(j) /\ j \notin misled =>
        made[j] = {IF job[j].kind = "create" THEN job[j].url ELSE Home[job[j].url]}

\* The server said no, or there was nothing to ask.  A refused property has no
\* response code to tell by.
Refused(j) ==
    \/ job[j].latestResponseCode >= 400
    \/ job[j].error \in {"ERR_COLLECTIONMODIFY_RESPONSE",
                         "ERR_COLLECTIONMODIFY_NO_PROPERITES",
                         "ERR_NO_MULTIGET"}

\* A job that was refused changed nothing.
RefusedMeansUntouched ==
    \A j \in Jobs : Done(j) /\ Refused(j) => made[j] = {}

\* Every job implements OneEffect: whatever redirects and failures it meets, it
\* makes, changes or removes at most one collection, once, between start() and
\* result(), and its error and response code tell whether it did.  After a
\* misleading answer they tell nothing.
Outcome(j) ==
    IF ~Done(j) THEN "pending"
    ELSE IF Succeeded(j) THEN (IF j \in misled THEN "unknown" ELSE "done")
    ELSE IF Refused(j) THEN "nothing" ELSE "unknown"
OE(j) == INSTANCE OneEffect
            WITH None <- {},
                 phase <- CASE job[j].phase = "new"     -> "new"
                            [] job[j].phase = "request" -> "running"
                            [] job[j].phase = "done"    -> "ended",
                 effect <- made[j], outcome <- Outcome(j)
ActsOnce ==
    /\ \A j \in Jobs : OE(j)!Init
    /\ [][\A j \in Jobs : OE(j)!Next \/ UNCHANGED OE(j)!vars]_vars

\* What the protocol can say of what the application asked of a new collection:
\* a calendar has no component for contacts or for time zones.
Expressible(collection) ==
    IF protocol = "CardDav"
    THEN [collection EXCEPT !.color = NoColor, !.contentTypes = {"Contacts"}]
    ELSE [collection EXCEPT !.contentTypes = @ \ {"Contacts", "Timezone"}]

\* What the types a collection is created with are read as: one without any
\* has every type a calendar can have.
ReadTypes(contentTypes) ==
    IF contentTypes = {} THEN ContentType \ {"Contacts"} ELSE contentTypes

\* The privileges in what the server granted, at the bottom of the aggregates.
GrantedPrivileges(url) ==
    {p \in Privileges : \E element \in Granted[url] :
        p \in element.parts \/ (element.parts = {} /\ p = element.name)}

\* A collection that was created and that nobody changed since is listed, and
\* is read with the name and the colour it was created with and with its
\* content types, all of them if none was asked for: what writeMkCol() writes,
\* collectionsQuery() asks for and the fetch job reads agree.  It is read with
\* the privileges granted where the protocol asks and the server tells, and
\* else with all.
CreatedIsFetched ==
    \A j \in Jobs : Succeeded(j) /\ job[j].kind = "create" =>
        LET url == job[j].url
            asked == Expressible(job[j].mCollection)
        IN  Present(url) /\ server[url].by = j =>
                /\ IsListed(url)
                /\ Fetched(url).displayName = asked.displayName
                /\ Fetched(url).color = asked.color
                /\ Fetched(url).contentTypes = ReadTypes(asked.contentTypes)
                /\ Fetched(url).privileges =
                      IF protocol = "CalDav" /\ url \in DOMAIN Granted
                      THEN GrantedPrivileges(url) ELSE AllPrivileges

\* "Returns the created DAV collection including the correct identifier URL"
\* (davcollectioncreatejob.h:58): a create job without an error has created
\* one.
CreatedWasMade ==
    \A j \in Jobs : Succeeded(j) /\ job[j].kind = "create" => made[j] # {}

=============================================================================
