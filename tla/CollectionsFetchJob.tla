------------------------- MODULE CollectionsFetchJob -------------------------
(***************************************************************************)
(* DavCollectionsFetchJob (src/src/common/davcollectionsfetchjob.cpp) and  *)
(* the DavPrincipalHomeSetsFetchJob it begins with                         *)
(* (davprincipalhomesetsfetchjob.cpp), one of each per configured URL.     *)
(*                                                                         *)
(* A job asks its URL for the home sets of the user's principal; an answer *)
(* may only name the principal, which is asked in turn.  Then it fetches   *)
(* every home set at once, or its own URL when there are none, and         *)
(* collects what the answers list.  Answers come in any order; any of them *)
(* may fail or be no multistatus at all.                                   *)
(***************************************************************************)
EXTENDS Protocols, DavJobBase

CONSTANTS
    Sources,            \* the configured URLs
    HomeSets,
    Principal, Direct,  \* the request for home sets; the fetch of the URL
    Collections,        \* what may be listed, collections and other things
    ProtocolOf,         \* [Sources -> Protocol]
    ResourceType,       \* [Collections -> the element names in resourcetype]
    Advertised,         \* [Sources -> SUBSET HomeSets]: the user's home sets
    Contents,           \* [Sources -> [fetches -> SUBSET Collections]]
    FailCodes,          \* HTTP statuses of answers that fail
    MaxRounds           \* bound on how often a server names a principal

Fetches == HomeSets \cup {Direct}
Requests == Fetches \cup {Principal}

ASSUME CollectionsFetchAssumption ==
    /\ IsFiniteSet(HomeSets)
    /\ Direct \notin HomeSets /\ Principal \notin Fetches
    /\ ProtocolOf \in [Sources -> Protocol]
    /\ ResourceType \in [Collections -> SUBSET STRING]
    /\ Advertised \in [Sources -> SUBSET HomeSets]
    /\ Contents \in [Sources -> [Fetches -> SUBSET Collections]]
    /\ FailCodes \subseteq Nat
    /\ MaxRounds \in Nat

\* The URLs of protocols that know principals.
Principals == {s \in Sources : SupportsPrincipals(ProtocolOf[s])}

VARIABLES
    job,                \* [Sources -> the state of the job]
    net,                \* [Sources -> [Requests -> Idle, Sent or an answer]]
    \* History, read by properties only:
    misled,             \* jobs whose home sets no answer told them of
    failures            \* [Sources -> SUBSET Requests]: which failed

vars == <<job, net, misled, failures>>

Idle == [state |-> "idle"]
Sent == [state |-> "sent"]
Failure(status) == [state |-> "failed", status |-> status]
Malformed == [state |-> "malformed"]
Principals200(homeSets, named) ==
    [state |-> "principals", homeSets |-> homeSets, named |-> named]
Listing(collections) == [state |-> "listing", collections |-> collections]

Messages ==
    {Idle, Sent, Malformed}
    \cup [state : {"failed"}, status : Nat]
    \cup [state : {"principals"}, homeSets : SUBSET HomeSets, named : BOOLEAN]
    \cup [state : {"listing"}, collections : SUBSET Collections]

\* collections counts the entries of the list mCollections, discovered the
\* collectionDiscovered() signals; rounds counts the requests for home sets.
JobState ==
    [started : BOOLEAN, asksPrincipal : BOOLEAN, rounds : Nat,
     mSubJobCount : Nat, error : ErrorNumber, latestResponseCode : Nat,
     mForceRetryLater : BOOLEAN, collections : [Collections -> Nat],
     discovered : [Collections -> Nat], results : Nat]

NoCollections == [c \in Collections |-> 0]

TypeOK ==
    /\ job \in [Sources -> JobState]
    /\ net \in [Sources -> [Requests -> Messages]]
    /\ misled \subseteq Sources
    /\ failures \in [Sources -> SUBSET Requests]

Init ==
    /\ job = [s \in Sources |->
                [started |-> FALSE, asksPrincipal |-> TRUE, rounds |-> 0,
                 mSubJobCount |-> 0, error |-> NO_ERR, latestResponseCode |-> 0,
                 mForceRetryLater |-> FALSE, collections |-> NoCollections,
                 discovered |-> NoCollections, results |-> 0]]
    /\ net = [s \in Sources |-> [r \in Requests |-> Idle]]
    /\ misled = {}
    /\ failures = [s \in Sources |-> {}]

InFlight(s) == {r \in Requests : net[s][r] # Idle}
Done(s) == job[s].results > 0
Succeeded(s) == Done(s) /\ job[s].error = NO_ERR

-----------------------------------------------------------------------------
(* The jobs                                                                *)

\* fetchHomeSets(homeSetsOnly), without sending the request.
FetchHomeSets(state, homeSetsOnly) ==
    [state EXCEPT !.asksPrincipal = ~homeSetsOnly, !.rounds = @ + 1]

\* doCollectionsFetch() for each URL, without sending the requests.
DoCollectionsFetch(state, fetches) ==
    [state EXCEPT !.mSubJobCount = @ + Cardinality(fetches)]

\* Requests put in flight for a job, another answer being consumed.
Sends(messages, requests) ==
    [r \in Requests |-> IF r \in requests THEN Sent ELSE messages[r]]

\* DavCollectionsFetchJob::start()
Started(s) ==
    LET state == [job[s] EXCEPT !.started = TRUE]
    IN  IF s \in Principals THEN FetchHomeSets(state, FALSE)
                            ELSE DoCollectionsFetch(state, {Direct})

FirstRequest(s) == IF s \in Principals THEN Principal ELSE Direct

Start(s) ==
    /\ ~job[s].started
    /\ job' = [job EXCEPT ![s] = Started(s)]
    /\ net' = [net EXCEPT ![s] = Sends(@, {FirstRequest(s)})]
    /\ UNCHANGED <<misled, failures>>

\* DavPrincipalHomeSetsFetchJobPrivate::davJobFinished() and, when that job
\* emits its result, principalFetchFinished().  An answer that is no
\* multistatus names neither home sets nor a principal.
AfterPrincipal(s, homeSets) ==
    LET fetches == IF homeSets = {} THEN {Direct} ELSE homeSets
    IN  /\ job' = [job EXCEPT ![s] = DoCollectionsFetch(@, fetches)]
        /\ net' = [net EXCEPT ![s] = Sends([@ EXCEPT ![Principal] = Idle], fetches)]
        /\ UNCHANGED failures

\* Faulty variant: the URL itself is probed, as if it had no principals.
PrincipalFailedProbes(s, status) ==
    /\ job' = [job EXCEPT ![s] = DoCollectionsFetch(@, {Direct})]
    /\ net' = [net EXCEPT ![s] = Sends([@ EXCEPT ![Principal] = Idle], {Direct})]
    /\ failures' = [failures EXCEPT ![s] = @ \cup {Principal}]

PrincipalFailed(s, status) ==
    /\ job' = [job EXCEPT ![s].error = "ERR_PROBLEM_WITH_REQUEST",
                          ![s].latestResponseCode = status,
                          ![s].results = @ + 1]
    /\ net' = [net EXCEPT ![s][Principal] = Idle]
    /\ failures' = [failures EXCEPT ![s] = @ \cup {Principal}]

\* Faulty variant: the next round asks for the principal again.
NextRoundAsksAgain(s) ==
    /\ job' = [job EXCEPT ![s] = FetchHomeSets(@, FALSE)]
    /\ net' = [net EXCEPT ![s][Principal] = Sent]
    /\ UNCHANGED failures

NextRound(s) ==
    /\ job' = [job EXCEPT ![s] = FetchHomeSets(@, TRUE)]
    /\ net' = [net EXCEPT ![s][Principal] = Sent]
    /\ UNCHANGED failures

PrincipalFinished(s) ==
    LET reply == net[s][Principal]
    IN  /\ \/ reply.state = "failed" /\ PrincipalFailed(s, reply.status)
           \/ reply.state = "malformed" /\ AfterPrincipal(s, {})
           \/ /\ reply.state = "principals"
              /\ IF reply.homeSets # {} \/ ~reply.named
                 THEN AfterPrincipal(s, reply.homeSets)
                 ELSE NextRound(s)
        /\ UNCHANGED misled

\* Faulty variant: a home set is like any other URL.
RecordErrorUnforced(state, fetch, error, status) ==
    [state EXCEPT
        !.error = IF state.error = NO_ERR THEN error ELSE @,
        !.latestResponseCode = IF state.error = NO_ERR THEN status ELSE @]

\* Faulty variant: every error sets the response code.
RecordErrorLastCode(state, fetch, error, status) ==
    [state EXCEPT
        !.mForceRetryLater = @ \/ fetch \in HomeSets,
        !.error = IF state.error = NO_ERR THEN error ELSE @,
        !.latestResponseCode = status]

\* The first error wins; one that concerns a home set makes the whole job
\* retryable even when it is not the first.
RecordError(state, fetch, error, status) ==
    [state EXCEPT
        !.mForceRetryLater = @ \/ fetch \in HomeSets,
        !.error = IF state.error = NO_ERR THEN error ELSE @,
        !.latestResponseCode = IF state.error = NO_ERR THEN status ELSE @]

\* containsCollection()
IsCollection(s, c) == ContainsCollection(ProtocolOf[s], ResourceType[c])

\* Faulty variant: without looking for duplicates.
AddAllCollections(s, state, listed) ==
    LET new == {c \in listed : state.error = NO_ERR /\ IsCollection(s, c)}
        Add(list) == [c \in Collections |->
                         IF c \in new THEN list[c] + 1 ELSE list[c]]
    IN  [state EXCEPT !.collections = Add(@), !.discovered = Add(@)]

\* Nothing is read from an answer once an error is known; what is in the list
\* already, or is no collection of the protocol's, is passed over.
AddCollections(s, state, listed) ==
    LET new == {c \in listed : /\ state.error = NO_ERR
                               /\ state.collections[c] = 0
                               /\ IsCollection(s, c)}
        Add(list) == [c \in Collections |->
                         IF c \in new THEN list[c] + 1 ELSE list[c]]
    IN  [state EXCEPT !.collections = Add(@), !.discovered = Add(@)]

\* Faulty variants: the list is kept when the job failed; the counter is
\* read before it is decremented.
SubjobFinishedKeepsList(state) ==
    [state EXCEPT
        !.mSubJobCount = @ - 1,
        !.results = IF state.mSubJobCount = 1 THEN @ + 1 ELSE @]
SubjobFinishedLate(state) ==
    [state EXCEPT
        !.mSubJobCount = @ - 1,
        !.results = IF state.mSubJobCount = 0 THEN @ + 1 ELSE @]

\* subjobFinished()
SubjobFinished(state) ==
    LET last == state.mSubJobCount = 1
    IN  [state EXCEPT
            !.mSubJobCount = @ - 1,
            !.collections = IF last /\ state.error # NO_ERR THEN NoCollections
                                                            ELSE @,
            !.results = IF last THEN @ + 1 ELSE @]

\* collectionsFetchFinished().  A malformed answer leaves the response code.
AfterFetch(s, state, fetch, reply) ==
    IF reply.state = "failed"
    THEN RecordError(state, fetch, "ERR_PROBLEM_WITH_REQUEST", reply.status)
    ELSE IF reply.state = "malformed"
    THEN RecordError(state, fetch, "ERR_COLLECTIONFETCH", state.latestResponseCode)
    ELSE AddCollections(s, state, reply.collections)

\* Faulty variant: the return after a malformed answer is missing.
CollectionsFetchFinishedTwice(s, fetch) ==
    LET reply == net[s][fetch]
        once == SubjobFinished(AfterFetch(s, job[s], fetch, reply))
    IN  /\ reply.state \in {"failed", "malformed", "listing"}
        /\ job' = [job EXCEPT ![s] =
                      IF reply.state = "malformed" THEN SubjobFinished(once) ELSE once]
        /\ net' = [net EXCEPT ![s][fetch] = Idle]
        /\ UNCHANGED <<misled, failures>>

CollectionsFetchFinished(s, fetch) ==
    LET reply == net[s][fetch]
    IN  /\ reply.state \in {"failed", "malformed", "listing"}
        /\ job' = [job EXCEPT ![s] = SubjobFinished(AfterFetch(s, @, fetch, reply))]
        /\ net' = [net EXCEPT ![s][fetch] = Idle]
        /\ failures' = IF reply.state = "listing" THEN failures
                       ELSE [failures EXCEPT ![s] = @ \cup {fetch}]
        /\ UNCHANGED misled

-----------------------------------------------------------------------------
(* The server                                                              *)

Replies(s, request, message) ==
    /\ net[s][request] = Sent
    /\ net' = [net EXCEPT ![s][request] = message]
    /\ UNCHANGED <<job, failures>>

\* A principal is named when it was asked for.
MayName(s) ==
    /\ "current-user-principal" \in HomeSetsQuery(ProtocolOf[s], ~job[s].asksPrincipal)
    /\ job[s].rounds < MaxRounds

\* The user's home sets; the principal may be named beside them.
TellsHomeSets(s) ==
    /\ \E named \in BOOLEAN :
        /\ named => MayName(s)
        /\ Replies(s, Principal, Principals200(Advertised[s], named))
    /\ UNCHANGED misled

\* Only the principal to ask.
NamesPrincipal(s) ==
    /\ MayName(s)
    /\ Replies(s, Principal, Principals200({}, TRUE))
    /\ UNCHANGED misled

\* No 200 propstat, or a success whose body is no multistatus.
TellsNothing(s) ==
    /\ \E message \in {Malformed, Principals200({}, FALSE)} :
        Replies(s, Principal, message)
    /\ misled' = IF Advertised[s] = {} THEN misled ELSE misled \cup {s}

ListsCollections(s, fetch) ==
    Replies(s, fetch, Listing(Contents[s][fetch])) /\ UNCHANGED misled

Fails(s, request) ==
    /\ \/ \E status \in FailCodes : Replies(s, request, Failure(status))
       \/ request \in Fetches /\ Replies(s, request, Malformed)
    /\ UNCHANGED misled

-----------------------------------------------------------------------------
Handler(s) ==
    PrincipalFinished(s) \/ \E f \in Fetches : CollectionsFetchFinished(s, f)

ServerStep(s, r) ==
    \/ r = Principal /\ (TellsHomeSets(s) \/ NamesPrincipal(s) \/ TellsNothing(s))
    \/ r \in Fetches /\ ListsCollections(s, r)
    \/ Fails(s, r)

Step(s) == Handler(s) \/ \E r \in Requests : ServerStep(s, r)

Finished == (\A s \in Sources : Done(s)) /\ UNCHANGED vars

Next == (\E s \in Sources : Start(s) \/ Step(s)) \/ Finished

Spec == Init /\ [][Next]_vars

-----------------------------------------------------------------------------
(* Properties                                                              *)

\* What a job that succeeds must return.
FetchesOf(s) ==
    IF s \in Principals /\ Advertised[s] # {} THEN Advertised[s] ELSE {Direct}
Complete(s) ==
    {c \in UNION {Contents[s][f] : f \in FetchesOf(s)} : IsCollection(s, c)}
Returned(s) == {c \in Collections : job[s].collections[c] > 0}

\* An incomplete list is never passed off as the complete one, from which
\* the caller would conclude that the other collections are gone: a job that
\* succeeds returns everything in every home set, each collection once and
\* announced once, unless the server never told it the home sets.
SuccessIsComplete ==
    \A s \in Sources \ misled : Succeeded(s) =>
        \A c \in Collections :
            /\ job[s].collections[c] = (IF c \in Complete(s) THEN 1 ELSE 0)
            /\ job[s].discovered[c] = job[s].collections[c]

\* A job that failed in any of its requests says so and returns nothing.
FailureReturnsNothing ==
    \A s \in Sources : Done(s) =>
        /\ job[s].error = NO_ERR <=> failures[s] = {}
        /\ job[s].error # NO_ERR => Returned(s) = {}

\* A home set that cannot be read is a temporary condition whatever the
\* server said and whichever error came first; when no home set is involved
\* the reported response code decides.
HomeSetFailureRetryable ==
    \A s \in Sources : Done(s) =>
        (failures[s] \cap HomeSets # {} =>
            CanRetryLater(job[s].mForceRetryLater, job[s].error,
                          job[s].latestResponseCode))
        /\ (job[s].mForceRetryLater => failures[s] \cap HomeSets # {})

\* The error and the response code a job ends with come from the same
\* request, the first that failed: a malformed answer has no code.
ErrorMatchesCode ==
    \A s \in Sources :
        job[s].latestResponseCode # 0 => job[s].error = "ERR_PROBLEM_WITH_REQUEST"

\* Home sets are asked for at most twice, of a server that sends no property
\* it was not asked for.
AtMostTwoRounds == \A s \in Sources : job[s].rounds <= 2

\* Each job emits result() exactly once, when nothing is in flight any more.
RO(s) == INSTANCE ResultOnce
            WITH started <- job[s].started, outstanding <- InFlight(s),
                 results <- job[s].results
DeliversOneResult ==
    /\ \A s \in Sources : RO(s)!Init
    /\ [][\A s \in Sources : RO(s)!Next \/ UNCHANGED RO(s)!vars]_vars

=============================================================================
