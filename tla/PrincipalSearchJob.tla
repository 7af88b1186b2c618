------------------------- MODULE PrincipalSearchJob -------------------------
(***************************************************************************)
(* DavPrincipalSearchJob (src/src/common/davprincipalsearchjob.cpp).       *)
(*                                                                         *)
(* A PROPFIND asks where the server keeps principals (its principal        *)
(* collection sets); then each of them is searched by a REPORT, all at     *)
(* once.  One REPORT that succeeds makes the job a success: errors of the  *)
(* ones before it are forgotten, errors of the ones after it ignored.      *)
(***************************************************************************)
EXTENDS DavJobBase, FiniteSets

CONSTANTS
    CollectionSets,     \* URLs of principal collection sets
    Propfind,           \* the request that asks for them
    Texts,              \* what properties may hold
    Directory,          \* [CollectionSets -> the principals there]; each
                        \* has sets of texts by property name
    FilterType, Filter, \* how to search, and for what
    FetchProperties,    \* the properties to return
    FailCodes,          \* HTTP statuses of answers that fail
    EmptySets           \* whether a server's principal-collection-set may
                        \* hold no href

\* The properties a search can be about.
Searched == {"displayname", "calendar-user-address-set"}

ASSUME PrincipalSearchAssumption ==
    /\ IsFiniteSet(CollectionSets)
    /\ Propfind \notin CollectionSets
    /\ FilterType \in {"DisplayName", "EmailAddress"}
    /\ Filter \in Texts
    /\ Directory \in [CollectionSets ->
                        SUBSET [Searched \cup FetchProperties -> SUBSET Texts]]
    /\ FailCodes \subseteq Nat
    /\ EmptySets \in BOOLEAN

Requests == CollectionSets \cup {Propfind}

VARIABLES
    started,
    net,                \* [Requests -> Idle, Sent or an answer]
    subJobCount, subJobSuccessful,
    error, latestResponseCode,
    mResults,
    results,            \* how often result() was emitted
    succeeded,          \* history: the sets whose REPORT succeeded
    searched            \* history: the sets a REPORT was sent to

jobVars == <<subJobCount, subJobSuccessful, error, latestResponseCode,
             mResults, results>>
historyVars == <<succeeded, searched>>
vars == <<started, net, jobVars, historyVars>>

Idle == [state |-> "idle"]
Sent == [state |-> "sent"]
Failure(status) == [state |-> "failed", status |-> status]
Located(sets) == [state |-> "located", sets |-> sets]
Useless == [state |-> "useless"]
Found(values) == [state |-> "found", values |-> values]

\* The name of a property and a text some principal has for it.
Results == FetchProperties \X Texts

Messages ==
    {Idle, Sent, Useless} \cup [state : {"failed"}, status : Nat]
    \cup [state : {"located"}, sets : SUBSET CollectionSets]
    \cup [state : {"found"}, values : SUBSET Results]

TypeOK ==
    /\ started \in BOOLEAN
    /\ net \in [Requests -> Messages]
    /\ subJobCount \in Nat /\ subJobSuccessful \in BOOLEAN
    /\ error \in ErrorNumber /\ latestResponseCode \in Nat
    /\ mResults \subseteq Results
    /\ results \in Nat
    /\ succeeded \subseteq searched /\ searched \subseteq CollectionSets

Init ==
    /\ started = FALSE
    /\ net = [r \in Requests |-> Idle]
    /\ subJobCount = 0 /\ subJobSuccessful = FALSE
    /\ error = NO_ERR /\ latestResponseCode = 0
    /\ mResults = {} /\ results = 0
    /\ succeeded = {} /\ searched = {}

InFlight == {r \in Requests : net[r] # Idle}
Done == results > 0

-----------------------------------------------------------------------------
(* The job                                                                 *)

\* DavPrincipalSearchJob::start()
Start ==
    /\ ~started
    /\ started' = TRUE
    /\ net' = [net EXCEPT ![Propfind] = Sent]
    /\ UNCHANGED <<jobVars, historyVars>>

\* The branches of principalCollectionSetSearchFinished() that end the job:
\* an error, or an answer without a response, a 200 propstat, a prop or a
\* principal-collection-set.
LocatingEnds ==
    LET reply == net[Propfind]
    IN  /\ \/ /\ reply.state = "failed"
              /\ error' = "ERR_PROBLEM_WITH_REQUEST"
              /\ latestResponseCode' = reply.status
           \/ /\ reply.state = "useless"
              /\ UNCHANGED <<error, latestResponseCode>>
        /\ net' = [net EXCEPT ![Propfind] = Idle]
        /\ results' = results + 1
        /\ UNCHANGED <<started, subJobCount, subJobSuccessful, mResults,
                       historyVars>>

\* Faulty variant: the types are swapped.
ReportQuerySwapped ==
    [search |-> IF FilterType = "EmailAddress" THEN "displayname"
                ELSE "calendar-user-address-set",
     match |-> Filter, fetch |-> FetchProperties]

\* buildReportQuery(): the property to search, the text to find in it, and the
\* properties wanted.
ReportQuery ==
    [search |-> IF FilterType = "DisplayName" THEN "displayname"
                ELSE "calendar-user-address-set",
     match |-> Filter, fetch |-> FetchProperties]

\* Faulty variant: the requests are not counted.
SearchSetsUncounted ==
    /\ net[Propfind].state = "located"
    /\ LET sets == net[Propfind].sets
       IN  /\ net' = [r \in Requests |-> IF r \in sets THEN Sent ELSE Idle]
           /\ searched' = sets
    /\ UNCHANGED <<started, jobVars, succeeded>>

\* Its last branch: one REPORT per href, counted as it is sent.
SearchSets ==
    /\ net[Propfind].state = "located"
    /\ LET sets == net[Propfind].sets
       IN  /\ net' = [r \in Requests |-> IF r \in sets THEN Sent ELSE Idle]
           /\ subJobCount' = subJobCount + Cardinality(sets)
           /\ searched' = sets
    /\ UNCHANGED <<started, subJobSuccessful, error, latestResponseCode,
                   mResults, results, succeeded>>

\* Faulty variant: the response code is not set.
ReportFailedNoCode(status) ==
    /\ error' = IF subJobSuccessful THEN error
                ELSE IF status >= 500 THEN "ERR_SERVER_UNRECOVERABLE"
                ELSE "ERR_PROBLEM_WITH_REQUEST"
    /\ UNCHANGED <<latestResponseCode, subJobSuccessful, mResults, succeeded>>

\* The error branch of principalPropertySearchFinished().
ReportFailed(status) ==
    /\ IF subJobSuccessful
       THEN UNCHANGED <<error, latestResponseCode>>
       ELSE /\ error' = IF status >= 500 THEN "ERR_SERVER_UNRECOVERABLE"
                                         ELSE "ERR_PROBLEM_WITH_REQUEST"
            /\ latestResponseCode' = status
    /\ UNCHANGED <<subJobSuccessful, mResults, succeeded>>

\* Faulty variant: an earlier error stays.
ReportSucceededKeepsError(set, values) ==
    /\ subJobSuccessful' = TRUE
    /\ mResults' = mResults \cup values
    /\ succeeded' = succeeded \cup {set}
    /\ UNCHANGED <<error, latestResponseCode>>

\* Its success branch; an answer may hold no principal.
ReportSucceeded(set, values) ==
    /\ error' = IF subJobSuccessful THEN error ELSE NO_ERR
    /\ subJobSuccessful' = TRUE
    /\ mResults' = mResults \cup values
    /\ succeeded' = succeeded \cup {set}
    /\ UNCHANGED latestResponseCode

\* Faulty variant: the early return of an answer without a principal does
\* not look whether it is the last one.
PrincipalPropertySearchReturnsEarly(set) ==
    LET reply == net[set]
    IN  /\ \/ reply.state = "failed" /\ ReportFailed(reply.status)
           \/ reply.state = "useless" /\ ReportSucceeded(set, {})
           \/ reply.state = "found" /\ ReportSucceeded(set, reply.values)
        /\ subJobCount' = subJobCount - 1
        /\ results' = IF subJobCount' = 0 /\ reply.state # "useless"
                      THEN results + 1 ELSE results
        /\ net' = [net EXCEPT ![set] = Idle]
        /\ UNCHANGED <<started, searched>>

\* DavPrincipalSearchJobPrivate::principalPropertySearchFinished(reply)
PrincipalPropertySearchFinished(set) ==
    LET reply == net[set]
    IN  /\ \/ reply.state = "failed" /\ ReportFailed(reply.status)
           \/ reply.state = "useless" /\ ReportSucceeded(set, {})
           \/ reply.state = "found" /\ ReportSucceeded(set, reply.values)
        /\ subJobCount' = subJobCount - 1
        /\ results' = IF subJobCount' = 0 THEN results + 1 ELSE results
        /\ net' = [net EXCEPT ![set] = Idle]
        /\ UNCHANGED <<started, searched>>

-----------------------------------------------------------------------------
(* The server                                                              *)

Replies(request, message) ==
    /\ net[request] = Sent
    /\ net' = [net EXCEPT ![request] = message]
    /\ UNCHANGED <<started, jobVars, historyVars>>

Locates ==
    \E sets \in SUBSET CollectionSets :
        (sets # {} \/ EmptySets) /\ Replies(Propfind, Located(sets))

Matches(principal, query) == query.match \in principal[query.search]
Properties(principal, query) ==
    {r \in query.fetch \X Texts : r[2] \in principal[r[1]]}

\* A REPORT that finds several principals has a response for each, in any
\* order; the job reads the first only.
Finds(set) ==
    \E principal \in {p \in Directory[set] : Matches(p, ReportQuery)} :
        Replies(set, Found(Properties(principal, ReportQuery)))

FailsOrUseless(r) ==
    /\ net[r] = Sent
    /\ \/ \E status \in FailCodes : Replies(r, Failure(status))
       \/ Replies(r, Useless)

Handler(r) ==
    \/ r = Propfind /\ (LocatingEnds \/ SearchSets)
    \/ r \in CollectionSets /\ PrincipalPropertySearchFinished(r)

ServerStep(r) ==
    \/ r = Propfind /\ Locates
    \/ r \in CollectionSets /\ Finds(r)
    \/ FailsOrUseless(r)

\* Nothing happens to a job that ended, or that has nothing to wait for.
Idling == started /\ InFlight = {} /\ UNCHANGED vars

Next ==
    \/ Start
    \/ \E r \in Requests : Handler(r) \/ ServerStep(r)
    \/ Idling

Spec == Init /\ [][Next]_vars

\* Every request is answered or given up in the end, and the event loop
\* delivers every finished reply.
Fairness ==
    /\ WF_vars(Start)
    /\ \A r \in Requests : WF_vars(ServerStep(r)) /\ WF_vars(Handler(r))

FairSpec == Spec /\ Fairness

-----------------------------------------------------------------------------
(* Properties                                                              *)

\* Whatever the order of the answers, a job that searched succeeds exactly if
\* one of the searches did, and returns what those found: fetched properties
\* of principals that have the name, or the address, that was searched for.
IsWanted(principal) ==
    Filter \in principal[CASE FilterType = "DisplayName"  -> "displayname"
                           [] FilterType = "EmailAddress" -> "calendar-user-address-set"]
OneSuccessSuffices ==
    Done /\ searched # {} =>
        /\ error = NO_ERR <=> succeeded # {}
        /\ \A r \in mResults : \E s \in succeeded : \E p \in Directory[s] :
              IsWanted(p) /\ r[2] \in p[r[1]]

\* When every search failed, the error and the code are those of one answer:
\* a server error is unrecoverable, anything else a problem of the request.
ErrorMatchesCode ==
    Done /\ error # NO_ERR /\ searched # {} =>
        (error = "ERR_SERVER_UNRECOVERABLE" <=> latestResponseCode >= 500)

\* The job emits result() exactly once, when nothing is in flight any more.
RO == INSTANCE ResultOnce WITH outstanding <- InFlight
DeliversOneResult == RO!Spec

\* A started job ends.
Terminates == started ~> Done

=============================================================================
