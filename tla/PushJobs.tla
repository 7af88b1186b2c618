------------------------------ MODULE PushJobs ------------------------------
(***************************************************************************)
(* DavPushRegistrationJob and DavPushUnregistrationJob                     *)
(* (src/src/common/davpush*registrationjob.cpp) of several applications    *)
(* that watch one collection, with registrations that expire and answers   *)
(* that are lost, and the DavPush-DontNotify header (DavPushDontNotify) of *)
(* the changes they make to the collection themselves.                     *)
(*                                                                         *)
(* An application keeps what the jobs return, runs one job at a time,      *)
(* renews its registration when it likes, and repeats an unregistration    *)
(* that failed.  A URL is a host and a path.  The server redirects none of *)
(* these requests.                                                         *)
(***************************************************************************)
EXTENDS Integers

CONSTANTS
    Clients,            \* the applications, each with its push endpoint
    Watchers,           \* those that do no more than register
    CollectionUrl,      \* what they watch
    Registrations,      \* URLs the server makes for registrations
    NoUrl,              \* an empty QUrl: not a URL
    Lifetime,           \* what an application asks for
    Horizon,            \* bound: when the clock stops
    FailCodes,          \* HTTP statuses of requests that fail; 0 is none
    MaxFaults,          \* bound: requests and answers that fail or are lost
    MaxChanges          \* bound: changes of the collection

ASSUME PushAssumption ==
    /\ Watchers \subseteq Clients
    /\ NoUrl \notin Registrations
    /\ Registrations \cup {CollectionUrl} \subseteq [host : STRING, path : STRING]
    /\ Lifetime \in Nat \ {0} /\ Horizon \in Nat
    /\ MaxFaults \in Nat /\ MaxChanges \in Nat
    /\ FailCodes \subseteq ({0} \cup 400 .. 599) \ {404}

VARIABLES
    clock,
    server,             \* [Registrations -> Unused, Gone or Live(...)]
    app,                \* [Clients -> what the application knows]
    dontNotify,         \* [Clients -> DavPushDontNotify]
    job,                \* [Clients -> the job it runs]
    reply,              \* [Clients -> NoReply or the answer on its way]
    faults, changes     \* counters

vars == <<clock, server, app, dontNotify, job, reply, faults, changes>>

Unused == [state |-> "unused"]
Gone == [state |-> "gone"]
Live(endpoint, expires) == [state |-> "live", endpoint |-> endpoint, expires |-> expires]

LiveRegistrations == {r \in Registrations : server[r].state = "live"}
RegistrationsOf(c) == {r \in LiveRegistrations : server[r].endpoint = c}

\* A null QDateTime.
NoDate == -1

NoJob == [kind |-> "none"]
NoReply == [state |-> "none"]

Idle(c) == job[c] = NoJob

TypeOK ==
    /\ clock \in 0 .. Horizon
    /\ \A r \in LiveRegistrations :
        /\ server[r].endpoint \in Clients
        /\ server[r].expires \in clock + 1 .. Horizon + Lifetime
    /\ \A c \in Clients :
        /\ app[c].registrationUrl = NoUrl => app[c].expirationDate = NoDate
        /\ app[c].leaving \in BOOLEAN
        /\ dontNotify[c].mIgnoreAll => dontNotify[c].mIgnoredUrls = {}
        /\ reply[c] # NoReply => ~Idle(c)
    /\ faults \in 0 .. MaxFaults /\ changes \in 0 .. MaxChanges

Init ==
    /\ clock = 0
    /\ server = [r \in Registrations |-> Unused]
    /\ app = [c \in Clients |-> [registrationUrl |-> NoUrl, expirationDate |-> NoDate,
                                 leaving |-> FALSE]]
    /\ dontNotify = [c \in Clients |-> [mIgnoreAll |-> FALSE, mIgnoredUrls |-> {}]]
    /\ job = [c \in Clients |-> NoJob]
    /\ reply = [c \in Clients |-> NoReply]
    /\ faults = 0 /\ changes = 0

-----------------------------------------------------------------------------
(* DavPushDontNotify                                                       *)

IsNull(d) == d.mIgnoredUrls = {} /\ ~d.mIgnoreAll

\* Faulty variant: ignoring everything is not taken back.
SetIgnoredUrlsOnly(d, urls) == [d EXCEPT !.mIgnoredUrls = urls]

SetIgnoredUrls(d, urls) == [d EXCEPT !.mIgnoreAll = FALSE, !.mIgnoredUrls = urls]
SetIgnoreAll(d, all) == [d EXCEPT !.mIgnoreAll = all, !.mIgnoredUrls = {}]

\* The header the jobs add to a request: "*", a list of URLs, or none.
DavHeader(d) ==
    CASE IsNull(d)    -> [form |-> "absent"]
      [] d.mIgnoreAll -> [form |-> "star"]
      [] OTHER        -> [form |-> "list", urls |-> d.mIgnoredUrls]

\* The registrations a server leaves out.
Ignored(header) ==
    CASE header.form = "absent" -> {}
      [] header.form = "star"   -> LiveRegistrations
      [] header.form = "list"   -> header.urls

-----------------------------------------------------------------------------
(* The application                                                         *)

Starts(c, request) ==
    /\ Idle(c)
    /\ job' = [job EXCEPT ![c] = request]
    /\ UNCHANGED <<clock, server, reply, faults, changes>>

\* What the application asks for; its keys go with its endpoint.
DavPushRegistration(c) == [pushEndpoint |-> c, expiration |-> clock + Lifetime]

\* writeDavPushRegister(): to be told of new content and of a new name or
\* colour, until a date.
WriteDavPushRegister(registration) ==
    [kind |-> "register", pushResource |-> registration.pushEndpoint,
     expires |-> registration.expiration,
     triggers |-> {"content-update", "displayname", "calendar-color"}]

\* DavPushRegistrationJob::start(): a first registration or a renewal.
StartRegister(c) ==
    /\ ~app[c].leaving
    /\ Starts(c, WriteDavPushRegister(DavPushRegistration(c)))
    /\ UNCHANGED <<app, dontNotify>>

\* The application wants no more notifications, and knows what to undo.
Leave(c) ==
    /\ c \notin Watchers
    /\ Idle(c) /\ ~app[c].leaving /\ app[c].registrationUrl # NoUrl
    /\ app' = [app EXCEPT ![c].leaving = TRUE]
    /\ UNCHANGED <<clock, server, dontNotify, job, reply, faults, changes>>

\* DavPushUnregistrationJob::start()
StartUnregister(c) ==
    /\ app[c].leaving
    /\ Starts(c, [kind |-> "unregister", url |-> app[c].registrationUrl])
    /\ UNCHANGED <<app, dontNotify>>

\* The application changes the collection: in bulk, for which nobody is to be
\* told, or an item, for which everybody is but itself.
Intents == {"bulk", "own"}

StartChange(c) ==
    /\ c \notin Watchers /\ changes < MaxChanges
    /\ \E intent \in Intents :
        LET own == {app[c].registrationUrl} \ {NoUrl}
            d == IF intent = "bulk" THEN SetIgnoreAll(dontNotify[c], TRUE)
                                    ELSE SetIgnoredUrls(dontNotify[c], own)
        IN  /\ dontNotify' = [dontNotify EXCEPT ![c] = d]
            /\ Starts(c, [kind |-> "change", intent |-> intent,
                          header |-> DavHeader(d)])
    /\ UNCHANGED app

-----------------------------------------------------------------------------
(* The server                                                              *)

IsRequest(c, kind) == job[c].kind = kind /\ reply[c] = NoReply

Answer(netError, status, location, expires) ==
    [state |-> "answered", netError |-> netError, status |-> status,
     location |-> location, expires |-> expires]

Answers(c, status, location, expires) ==
    reply' = [reply EXCEPT ![c] = Answer(status >= 400, status, location, expires)]

\* A Location header is an absolute URL, or just the path where that will do.
NoLocation == [form |-> "absent"]
Location(r) ==
    IF r.host = CollectionUrl.host THEN [form |-> "path", path |-> r.path]
                                   ELSE [form |-> "absolute", url |-> r]

\* The registration of an endpoint is renewed or made anew, for as long as the
\* server likes; it need not say where or how long.  A renewal takes nothing
\* away.
ServerRegisters(c) ==
    /\ IsRequest(c, "register")
    /\ \E r \in Registrations, expires \in clock + 1 .. clock + Lifetime :
        /\ \/ r \in RegistrationsOf(job[c].pushResource) /\ server[r].expires <= expires
           \/ server[r] = Unused
        /\ server' = [server EXCEPT ![r] = Live(job[c].pushResource, expires)]
        /\ \/ Answers(c, 201, Location(r), expires)
           \/ Answers(c, 201, Location(r), NoDate)
           \/ Answers(c, 201, NoLocation, expires)
    /\ UNCHANGED <<clock, app, dontNotify, job, faults, changes>>

\* 204, or 404 for what was removed or has expired.
ServerUnregisters(c) ==
    /\ IsRequest(c, "unregister")
    /\ LET r == job[c].url
           here == r \in LiveRegistrations
       IN  /\ server' = IF here THEN [server EXCEPT ![r] = Gone] ELSE server
           /\ Answers(c, IF here THEN 204 ELSE 404, NoLocation, NoDate)
    /\ UNCHANGED <<clock, app, dontNotify, job, faults, changes>>

\* Every live registration that the header does not name.
PushedTo(c) == LiveRegistrations \ Ignored(job[c].header)

\* The collection changes, and PushedTo(c) get to know.
ServerChanges(c) ==
    /\ IsRequest(c, "change") /\ changes < MaxChanges
    /\ changes' = changes + 1
    /\ Answers(c, 204, NoLocation, NoDate)
    /\ UNCHANGED <<clock, server, app, dontNotify, job, faults>>

Tick ==
    /\ clock < Horizon
    /\ clock' = clock + 1
    /\ server' = [r \in Registrations |->
                    IF r \in LiveRegistrations /\ server[r].expires <= clock'
                    THEN Gone ELSE server[r]]
    /\ UNCHANGED <<app, dontNotify, job, reply, faults, changes>>

Faulty == faults < MaxFaults /\ faults' = faults + 1

\* A request that never takes effect: refused, or lost on its way.
RequestFails(c) ==
    /\ Faulty
    /\ ~Idle(c) /\ reply[c] = NoReply
    /\ \E status \in FailCodes :
        reply' = [reply EXCEPT ![c] = Answer(TRUE, status, NoLocation, NoDate)]
    /\ UNCHANGED <<clock, server, app, dontNotify, job, changes>>

AnswerLost(c) ==
    /\ Faulty
    /\ reply[c] # NoReply /\ ~reply[c].netError
    /\ reply' = [reply EXCEPT ![c] = Answer(TRUE, 0, NoLocation, NoDate)]
    /\ UNCHANGED <<clock, server, app, dontNotify, job, changes>>

-----------------------------------------------------------------------------
(* The handlers, and what the application keeps of their results           *)

Consumes(c, state) ==
    /\ job' = [job EXCEPT ![c] = NoJob]
    /\ reply' = [reply EXCEPT ![c] = NoReply]
    /\ app' = [app EXCEPT ![c] = state]
    /\ UNCHANGED <<clock, server, dontNotify, faults, changes>>

\* Faulty variant: the host is taken to be that of the collection.
UrlFromHrefPath(location) ==
    CASE location.form = "absent"   -> NoUrl
      [] location.form = "absolute" -> [CollectionUrl EXCEPT !.path = location.url.path]
      [] location.form = "path"     -> [CollectionUrl EXCEPT !.path = location.path]

\* Utils::urlFromHref(reply->url(), location): a path is put in place of the
\* path of the URL that was asked.
UrlFromHref(location) ==
    CASE location.form = "absent"   -> NoUrl
      [] location.form = "absolute" -> location.url
      [] location.form = "path"     -> [CollectionUrl EXCEPT !.path = location.path]

\* Faulty variant: what was asked for is taken to be granted.
ExpirationAsked(c) == job[c].expires

\* expirationDate()
Expiration(c) == reply[c].expires

\* DavPushRegistrationJobPrivate::onRegistrationDone(reply).  The application
\* keeps a registration it has a URL for; ERR_DAVPUSH_REGISTER leaves what it
\* knows as it was.
OnRegistrationDone(c) ==
    /\ job[c].kind = "register" /\ reply[c] # NoReply
    /\ LET r == reply[c]
           url == UrlFromHref(r.location)
       IN  Consumes(c,
             IF r.netError \/ url = NoUrl THEN app[c]
             ELSE [app[c] EXCEPT !.registrationUrl = url,
                                 !.expirationDate = Expiration(c)])

\* Faulty variant: a registration that is gone is a failure like any other.
UnregistrationFailedIfGone(r) == r.netError

\* ContentNotFoundError is not a failure.
UnregistrationFailed(r) == r.netError /\ r.status # 404

\* DavPushUnregistrationJobPrivate::onUnregistrationDone(reply).  With
\* ERR_DAVPUSH_UNREGISTER the application still wants to leave.
OnUnregistrationDone(c) ==
    /\ job[c].kind = "unregister" /\ reply[c] # NoReply
    /\ Consumes(c,
         IF UnregistrationFailed(reply[c]) THEN app[c]
         ELSE [registrationUrl |-> NoUrl, expirationDate |-> NoDate,
               leaving |-> FALSE])

\* The result of the change itself is the matter of the item and collection
\* jobs.
OnChangeDone(c) ==
    /\ job[c].kind = "change" /\ reply[c] # NoReply
    /\ Consumes(c, app[c])

-----------------------------------------------------------------------------

Handled(c) == OnRegistrationDone(c) \/ OnUnregistrationDone(c) \/ OnChangeDone(c)
Served(c) ==
    ServerRegisters(c) \/ ServerUnregisters(c) \/ ServerChanges(c) \/ RequestFails(c)

Next ==
    \/ \E c \in Clients :
        \/ StartRegister(c) \/ Leave(c) \/ StartUnregister(c) \/ StartChange(c)
        \/ ServerRegisters(c) \/ ServerUnregisters(c) \/ ServerChanges(c)
        \/ RequestFails(c) \/ AnswerLost(c)
        \/ OnRegistrationDone(c) \/ OnUnregistrationDone(c) \/ OnChangeDone(c)
    \/ Tick

Spec == Init /\ [][Next]_vars

\* The server or the network layer ends every request, the event loop delivers
\* the reply, and an application that wants to leave tries again.
Fairness ==
    \A c \in Clients :
        WF_vars(Served(c)) /\ WF_vars(Handled(c)) /\ WF_vars(StartUnregister(c))

FairSpec == Spec /\ Fairness

-----------------------------------------------------------------------------
(* Properties                                                              *)

\* An application that was given a registration with an expiration date, and
\* did not ask to leave, is registered until that date: what the job returned
\* of the answer (URL and date) is what the server holds.
RegistrationKnown ==
    \A c \in Clients :
        LET url == app[c].registrationUrl
        IN  url # NoUrl /\ ~app[c].leaving =>
                /\ url \in Registrations
                /\ clock < app[c].expirationDate =>
                      /\ url \in RegistrationsOf(c)
                      /\ server[url].expires >= app[c].expirationDate

\* An unregistration job that succeeds leaves nothing registered at its URL,
\* also when the server answered that there was nothing.
UnregisteredMeansGone ==
    [][ \A c \in Clients :
            job[c].kind = "unregister" /\ OnUnregistrationDone(c)
                /\ ~app'[c].leaving
                => /\ job[c].url \in Registrations
                   /\ server[job[c].url].state = "gone" ]_vars

\* A change is pushed to every other application that is registered, and not
\* to the registration the changing one knows as its own; one made in bulk is
\* pushed to nobody.  However the one DavPushDontNotify was used before.
OthersAreNotified ==
    [][ \A c \in Clients : ServerChanges(c) =>
            IF job[c].intent = "bulk" THEN PushedTo(c) = {}
            ELSE /\ LiveRegistrations \ RegistrationsOf(c) \subseteq PushedTo(c)
                 /\ app[c].registrationUrl \notin PushedTo(c) ]_vars

\* An application that wants to leave gets to know that it has left, although
\* an unregistration may take effect without its answer arriving, and a
\* registration may expire first.
EventuallySilent == \A c \in Clients : app[c].leaving ~> ~app[c].leaving

=============================================================================
