---------------------------- MODULE PushJobs_proofs ----------------------------
(***************************************************************************)
(* Proofs about PushJobs, for any number of applications, registrations    *)
(* and faults, and any lifetime.                                           *)
(***************************************************************************)
EXTENDS PushJobs, TLAPS

(***************************************************************************)
(* The inductive invariant.  A registration is of one endpoint for good,   *)
(* and what an application knows, or is about to be told, is of its own.   *)
(***************************************************************************)

IsLive(c, r) == server[r].state = "live" /\ server[r].endpoint = c
Owns(c, r) == r \in Registrations /\ (server[r] = Gone \/ IsLive(c, r))
Holds(c, r, date) ==
    /\ Owns(c, r)
    /\ clock < date => IsLive(c, r) /\ server[r].expires >= date

Known(c) ==
    /\ app[c].registrationUrl # NoUrl =>
          /\ Owns(c, app[c].registrationUrl)
          /\ ~app[c].leaving =>
                Holds(c, app[c].registrationUrl, app[c].expirationDate)
    /\ app[c].leaving => app[c].registrationUrl # NoUrl

Asked(c) ==
    /\ job[c].kind \in {"none", "register", "unregister", "change"}
    /\ job[c].kind = "register" => job[c].pushResource = c
    /\ job[c].kind = "unregister" =>
          app[c].leaving /\ job[c].url = app[c].registrationUrl
    /\ job[c].kind = "change" =>
          /\ job[c].intent \in Intents
          /\ job[c].intent = "bulk" => job[c].header = [form |-> "star"]
          /\ job[c].intent = "own" =>
                job[c].header = IF app[c].registrationUrl = NoUrl
                                THEN [form |-> "absent"]
                                ELSE [form |-> "list",
                                      urls |-> {app[c].registrationUrl}]

Told(c) ==
    /\ Idle(c) => reply[c] = NoReply
    /\ reply[c] # NoReply =>
          /\ reply[c].expires \in Int /\ reply[c].netError \in BOOLEAN
          /\ job[c].kind = "register" /\ ~reply[c].netError
                /\ UrlFromHref(reply[c].location) # NoUrl =>
                Holds(c, UrlFromHref(reply[c].location), reply[c].expires)
          /\ job[c].kind = "unregister" /\ ~UnregistrationFailed(reply[c]) =>
                server[job[c].url] = Gone

Types ==
    /\ clock \in Nat
    /\ server \in [Registrations ->
                     {Unused, Gone} \cup [state : {"live"}, endpoint : Clients,
                                          expires : Int]]
    /\ app \in [Clients -> [registrationUrl : Registrations \cup {NoUrl},
                            expirationDate : Int, leaving : BOOLEAN]]
    /\ dontNotify \in [Clients -> [mIgnoreAll : BOOLEAN,
                                   mIgnoredUrls : SUBSET Registrations]]
    /\ job = [c \in Clients |-> job[c]]
    /\ reply = [c \in Clients |-> reply[c]]

ClientInv(c) == Known(c) /\ Asked(c) /\ Told(c)

IInv == Types /\ \A c \in Clients : ClientInv(c)

(***************************************************************************)
(* Facts about the data.                                                   *)
(***************************************************************************)

LEMMA States ==
    ASSUME Types, NEW r \in Registrations
    PROVE  /\ server[r].state \in {"unused", "gone", "live"}
           /\ server[r] = Unused <=> server[r].state = "unused"
           /\ server[r] = Gone <=> server[r].state = "gone"
           /\ server[r].state = "live" =>
                 server[r].endpoint \in Clients /\ server[r].expires \in Int
           /\ r \in LiveRegistrations <=> server[r].state = "live"
<1>1. CASE server[r] \in {Unused, Gone}
  BY <1>1 DEF Unused, Gone, LiveRegistrations
<1>2. CASE server[r] \in [state : {"live"}, endpoint : Clients, expires : Int]
  BY <1>2 DEF Unused, Gone, LiveRegistrations
<1> QED BY <1>1, <1>2 DEF Types

\* A Location leads back to the registration it is made for.
LEMMA LocationLeadsBack ==
    ASSUME NEW r \in Registrations
    PROVE  UrlFromHref(Location(r)) = r
<1>1. /\ r \in [host : STRING, path : STRING]
      /\ CollectionUrl \in [host : STRING, path : STRING]
  BY PushAssumption
<1>2. CASE r.host = CollectionUrl.host
  <2>1. UrlFromHref(Location(r)) = [CollectionUrl EXCEPT !.path = r.path]
    BY <1>2 DEF UrlFromHref, Location
  <2>2. [CollectionUrl EXCEPT !.path = r.path] = r
    BY <1>1, <1>2
  <2> QED BY <2>1, <2>2
<1>3. CASE r.host # CollectionUrl.host
  BY <1>3 DEF UrlFromHref, Location
<1> QED BY <1>2, <1>3

LEMMA NoLocationNoUrl == UrlFromHref(NoLocation) = NoUrl
BY DEF UrlFromHref, NoLocation

\* What is known about a registration stays true while it belongs to c.
Stable(c) ==
    /\ \A r \in Registrations : server[r] = Gone => server'[r] = Gone
    /\ \A r \in Registrations : Owns(c, r) => Owns(c, r)'
    /\ \A r \in Registrations, date \in Int : Holds(c, r, date) => Holds(c, r, date)'

LEMMA ClientStays ==
    ASSUME IInv, NEW c \in Clients, Stable(c),
           job'[c] = job[c], reply'[c] = reply[c], app'[c] = app[c]
    PROVE  ClientInv(c)'
<1>1. ClientInv(c) /\ app[c].registrationUrl \in Registrations \cup {NoUrl}
      /\ app[c].expirationDate \in Int
  BY DEF IInv, Types
<1>2. Known(c)'
  BY <1>1 DEF ClientInv, Known, Stable, Holds, Owns
<1>3. Asked(c)'
  BY <1>1 DEF ClientInv, Asked
<1>4. Told(c)'
  <2>1. reply[c] # NoReply /\ job[c].kind = "register" /\ ~reply[c].netError
           /\ UrlFromHref(reply[c].location) # NoUrl =>
           Holds(c, UrlFromHref(reply[c].location), reply[c].expires)'
    BY <1>1 DEF ClientInv, Told, Stable, Holds, Owns
  <2>2. reply[c] # NoReply /\ job[c].kind = "unregister"
           /\ ~UnregistrationFailed(reply[c]) => server'[job[c].url] = Gone
    <3>1. job[c].kind = "unregister" => job[c].url \in Registrations
      BY <1>1 DEF ClientInv, Asked, Known, Owns
    <3> QED BY <1>1, <3>1 DEF ClientInv, Told, Stable
  <2>3. /\ Idle(c)' = Idle(c)
        /\ UnregistrationFailed(reply'[c]) = UnregistrationFailed(reply[c])
        /\ UrlFromHref(reply'[c].location) = UrlFromHref(reply[c].location)
    BY DEF Idle
  <2> QED BY <1>1, <2>1, <2>2, <2>3 DEF ClientInv, Told
<1> QED BY <1>2, <1>3, <1>4 DEF ClientInv

LEMMA NothingHappens ==
    ASSUME NEW c, UNCHANGED <<clock, server>>
    PROVE  Stable(c)
BY DEF Stable, Owns, Holds, IsLive

\* One application does something, the others stay as they are.
LEMMA OneClient ==
    ASSUME IInv, Types', NEW c \in Clients, ClientInv(c)',
           \A d \in Clients \ {c} : /\ Stable(d)
                                    /\ job'[d] = job[d] /\ reply'[d] = reply[d]
                                    /\ app'[d] = app[d]
    PROVE  IInv'
<1>1. ASSUME NEW d \in Clients
      PROVE  ClientInv(d)'
  <2>1. CASE d = c
    BY <2>1
  <2>2. CASE d # c
    BY <2>2, ClientStays
  <2> QED BY <2>1, <2>2
<1> QED BY <1>1 DEF IInv

(***************************************************************************)
(* The application.                                                        *)
(***************************************************************************)

\* An idle application starts a job.
LEMMA Started ==
    ASSUME IInv, Types', NEW c \in Clients, NEW request, Starts(c, request),
           UNCHANGED app, request # NoJob, Asked(c)'
    PROVE  IInv'
<1>1. /\ job' = [job EXCEPT ![c] = request] /\ job'[c] = request
      /\ UNCHANGED <<clock, server, reply>> /\ Idle(c)
      /\ \A d \in Clients \ {c} : job'[d] = job[d]
  BY DEF Starts, IInv, Types
<1>2. ClientInv(c) /\ reply'[c] = NoReply
  BY <1>1 DEF IInv, ClientInv, Told
<1>3. Known(c)'
  BY <1>1, <1>2 DEF ClientInv, Known, Holds, Owns, IsLive
<1>4. Told(c)'
  BY <1>1, <1>2 DEF Told, Idle
<1>5. ClientInv(c)'
  BY <1>3, <1>4 DEF ClientInv
<1>6. ASSUME NEW d \in Clients \ {c}
      PROVE  Stable(d)
  BY <1>1, NothingHappens
<1> QED BY <1>1, <1>5, <1>6, OneClient

LEMMA StepStartRegister ==
    ASSUME IInv, NEW c \in Clients, StartRegister(c)
    PROVE  IInv'
<1> DEFINE request == WriteDavPushRegister(DavPushRegistration(c))
<1>1. Starts(c, request) /\ UNCHANGED <<app, dontNotify>>
  BY DEF StartRegister
<1>2. request.kind = "register" /\ request.pushResource = c /\ request # NoJob
  BY DEF WriteDavPushRegister, DavPushRegistration, NoJob
<1> HIDE DEF request
<1>3. Types'
  BY <1>1 DEF IInv, Types, Starts
<1>4. job'[c] = request
  BY <1>1 DEF IInv, Types, Starts
<1>5. Asked(c)'
  BY <1>2, <1>4 DEF Asked
<1> QED BY <1>1, <1>2, <1>3, <1>5, Started

LEMMA StepStartUnregister ==
    ASSUME IInv, NEW c \in Clients, StartUnregister(c)
    PROVE  IInv'
<1> DEFINE request == [kind |-> "unregister", url |-> app[c].registrationUrl]
<1>1. Starts(c, request) /\ UNCHANGED <<app, dontNotify>> /\ app[c].leaving
  BY DEF StartUnregister
<1>2. /\ request.kind = "unregister" /\ request.url = app[c].registrationUrl
      /\ request # NoJob
  BY DEF NoJob
<1> HIDE DEF request
<1>3. Types'
  BY <1>1 DEF IInv, Types, Starts
<1>4. job'[c] = request
  BY <1>1 DEF IInv, Types, Starts
<1>5. Asked(c)'
  BY <1>1, <1>2, <1>4 DEF Asked
<1> QED BY <1>1, <1>2, <1>3, <1>5, Started

\* However the DavPushDontNotify was used before, the header is the intent's.
LEMMA HeaderOfIntent ==
    ASSUME Types, NEW c \in Clients
    PROVE  LET own == {app[c].registrationUrl} \ {NoUrl}
               all == SetIgnoreAll(dontNotify[c], TRUE)
               mine == SetIgnoredUrls(dontNotify[c], own)
           IN  /\ all \in [mIgnoreAll : BOOLEAN, mIgnoredUrls : SUBSET Registrations]
               /\ mine \in [mIgnoreAll : BOOLEAN, mIgnoredUrls : SUBSET Registrations]
               /\ DavHeader(all) = [form |-> "star"]
               /\ DavHeader(mine) = IF app[c].registrationUrl = NoUrl
                                    THEN [form |-> "absent"]
                                    ELSE [form |-> "list",
                                          urls |-> {app[c].registrationUrl}]
<1> DEFINE d == dontNotify[c]
           own == {app[c].registrationUrl} \ {NoUrl}
           all == SetIgnoreAll(d, TRUE)
           mine == SetIgnoredUrls(d, own)
<1>1. /\ d \in [mIgnoreAll : BOOLEAN, mIgnoredUrls : SUBSET Registrations]
      /\ app[c].registrationUrl \in Registrations \cup {NoUrl}
  BY DEF Types
<1>2. own \in SUBSET Registrations
  BY <1>1
<1>3. own = IF app[c].registrationUrl = NoUrl THEN {} ELSE {app[c].registrationUrl}
  OBVIOUS
<1> HIDE DEF own, d
<1>4. /\ all \in [mIgnoreAll : BOOLEAN, mIgnoredUrls : SUBSET Registrations]
      /\ all.mIgnoreAll = TRUE
  BY <1>1 DEF SetIgnoreAll
<1>5. /\ mine \in [mIgnoreAll : BOOLEAN, mIgnoredUrls : SUBSET Registrations]
      /\ mine.mIgnoreAll = FALSE /\ mine.mIgnoredUrls = own
  BY <1>1, <1>2 DEF SetIgnoredUrls
<1> HIDE DEF all, mine
<1>6. DavHeader(all) = [form |-> "star"]
  BY <1>4 DEF DavHeader, IsNull
<1>7. DavHeader(mine) = IF own = {} THEN [form |-> "absent"]
                                    ELSE [form |-> "list", urls |-> own]
  BY <1>5 DEF DavHeader, IsNull
<1>8. own = {} <=> app[c].registrationUrl = NoUrl
  BY <1>3
<1>9. DavHeader(mine) = IF app[c].registrationUrl = NoUrl
                        THEN [form |-> "absent"]
                        ELSE [form |-> "list", urls |-> {app[c].registrationUrl}]
  BY <1>3, <1>7, <1>8
<1> QED BY <1>4, <1>5, <1>6, <1>9 DEF all, mine, own, d

LEMMA StepStartChange ==
    ASSUME IInv, NEW c \in Clients, StartChange(c)
    PROVE  IInv'
<1> DEFINE own == {app[c].registrationUrl} \ {NoUrl}
<1> DEFINE mine(intent) == IF intent = "bulk" THEN SetIgnoreAll(dontNotify[c], TRUE)
                                              ELSE SetIgnoredUrls(dontNotify[c], own)
<1>0. PICK intent \in Intents :
         /\ dontNotify' = [dontNotify EXCEPT ![c] = mine(intent)]
         /\ Starts(c, [kind |-> "change", intent |-> intent,
                       header |-> DavHeader(mine(intent))])
  BY DEF StartChange
<1> DEFINE d == mine(intent)
<1>1. /\ d = IF intent = "bulk" THEN SetIgnoreAll(dontNotify[c], TRUE)
                                ELSE SetIgnoredUrls(dontNotify[c], own)
      /\ dontNotify' = [dontNotify EXCEPT ![c] = d]
      /\ Starts(c, [kind |-> "change", intent |-> intent, header |-> DavHeader(d)])
  BY <1>0
<1> HIDE DEF d
<1>2. UNCHANGED app
  BY DEF StartChange
<1>3. /\ d \in [mIgnoreAll : BOOLEAN, mIgnoredUrls : SUBSET Registrations]
      /\ intent = "bulk" => DavHeader(d) = [form |-> "star"]
      /\ intent = "own" => DavHeader(d) =
            IF app[c].registrationUrl = NoUrl
            THEN [form |-> "absent"]
            ELSE [form |-> "list", urls |-> {app[c].registrationUrl}]
  BY <1>1, HeaderOfIntent DEF IInv, Intents
<1> DEFINE request == [kind |-> "change", intent |-> intent, header |-> DavHeader(d)]
<1>4. /\ request.kind = "change" /\ request.intent = intent
      /\ request.header = DavHeader(d) /\ request # NoJob
  BY DEF NoJob
<1>5. Starts(c, request)
  BY <1>1
<1> HIDE DEF request
<1>6. Types'
  BY <1>1, <1>2, <1>3, <1>5 DEF IInv, Types, Starts
<1>7. job'[c] = request
  BY <1>5 DEF IInv, Types, Starts
<1>8. Asked(c)'
  BY <1>2, <1>3, <1>4, <1>7 DEF Asked
<1> QED BY <1>2, <1>4, <1>5, <1>6, <1>8, Started

LEMMA StepLeave ==
    ASSUME IInv, NEW c \in Clients, Leave(c)
    PROVE  IInv'
<1>1. /\ Idle(c) /\ app[c].registrationUrl # NoUrl
      /\ app' = [app EXCEPT ![c].leaving = TRUE]
      /\ UNCHANGED <<clock, server, dontNotify, job, reply>>
  BY DEF Leave
<1>2. Types'
  BY <1>1 DEF IInv, Types
<1>3. /\ app'[c].registrationUrl = app[c].registrationUrl /\ app'[c].leaving
      /\ \A d \in Clients \ {c} : app'[d] = app[d]
  BY <1>1 DEF IInv, Types
<1>4. ClientInv(c)
  BY DEF IInv
<1>5. job'[c].kind = "none" /\ reply'[c] = NoReply
  BY <1>1, <1>4 DEF Idle, NoJob, ClientInv, Told
<1>6. Known(c)' /\ Asked(c)' /\ Told(c)'
  BY <1>1, <1>3, <1>4, <1>5 DEF ClientInv, Known, Owns, IsLive, Asked, Told
<1>7. ASSUME NEW d \in Clients \ {c}
      PROVE  Stable(d)
  BY <1>1, NothingHappens
<1> QED BY <1>1, <1>2, <1>3, <1>6, <1>7, OneClient DEF ClientInv

(***************************************************************************)
(* The server.                                                             *)
(***************************************************************************)

\* A request is answered.
LEMMA Answered ==
    ASSUME IInv, Types', NEW c \in Clients, NEW answer,
           ~Idle(c), reply' = [reply EXCEPT ![c] = answer],
           UNCHANGED <<app, job>>, \A d \in Clients : Stable(d),
           answer.expires \in Int, answer.netError \in BOOLEAN,
           job[c].kind = "register" /\ ~answer.netError
              /\ UrlFromHref(answer.location) # NoUrl =>
                 Holds(c, UrlFromHref(answer.location), answer.expires)',
           job[c].kind = "unregister" /\ ~UnregistrationFailed(answer) =>
                 server'[job[c].url] = Gone
    PROVE  IInv'
<1>1. ClientInv(c) /\ reply'[c] = answer
      /\ \A d \in Clients \ {c} : reply'[d] = reply[d]
  BY DEF IInv, Types
<1>2. /\ app[c].registrationUrl \in Registrations \cup {NoUrl}
      /\ app[c].expirationDate \in Int
  BY DEF IInv, Types
<1>3. Known(c)'
  BY <1>1, <1>2 DEF ClientInv, Known, Stable, Holds, Owns
<1>4. Asked(c)'
  BY <1>1 DEF ClientInv, Asked
<1>5. Told(c)'
  <2>1. UrlFromHref(reply'[c].location) = UrlFromHref(answer.location)
        /\ UnregistrationFailed(reply'[c]) = UnregistrationFailed(answer)
        /\ ~Idle(c)'
    BY <1>1 DEF Idle
  <2>2. Holds(c, UrlFromHref(reply[c].location), reply[c].expires)' <=>
            Holds(c, UrlFromHref(answer.location), answer.expires)'
    BY <1>1
  <2> QED BY <1>1, <2>1, <2>2 DEF Told
<1> QED BY <1>1, <1>3, <1>4, <1>5, OneClient DEF ClientInv

LEMMA AnswerFields ==
    ASSUME NEW netError, NEW status, NEW location, NEW expires
    PROVE  /\ Answer(netError, status, location, expires).netError = netError
           /\ Answer(netError, status, location, expires).status = status
           /\ Answer(netError, status, location, expires).location = location
           /\ Answer(netError, status, location, expires).expires = expires
           /\ Answer(netError, status, location, expires) # NoReply
BY DEF Answer, NoReply

LEMMA StepServerRegisters ==
    ASSUME IInv, NEW c \in Clients, ServerRegisters(c)
    PROVE  IInv'
<1>1. /\ job[c].kind = "register" /\ reply[c] = NoReply /\ job[c].pushResource = c
      /\ UNCHANGED <<clock, app, dontNotify, job, faults, changes>>
  BY DEF ServerRegisters, IsRequest, IInv, ClientInv, Asked
<1>2. PICK r \in Registrations, expires \in clock + 1 .. clock + Lifetime :
         /\ \/ r \in RegistrationsOf(c) /\ server[r].expires <= expires
            \/ server[r] = Unused
         /\ server' = [server EXCEPT ![r] = Live(c, expires)]
         /\ \/ Answers(c, 201, Location(r), expires)
            \/ Answers(c, 201, Location(r), NoDate)
            \/ Answers(c, 201, NoLocation, expires)
  BY <1>1 DEF ServerRegisters
<1>3. Types /\ clock \in Nat /\ expires \in Int /\ ~Idle(c)
  BY <1>1, PushAssumption DEF IInv, Types, Idle, NoJob
<1>4. /\ Live(c, expires) \in [state : {"live"}, endpoint : Clients, expires : Int]
      /\ Live(c, expires).state = "live" /\ Live(c, expires).endpoint = c
      /\ Live(c, expires).expires = expires
  BY <1>3 DEF Live
<1>5. /\ server'[r] = Live(c, expires)
      /\ \A q \in Registrations \ {r} : server'[q] = server[q]
  BY <1>2, <1>3 DEF Types
<1>6. \/ IsLive(c, r) /\ server[r].expires <= expires /\ server[r].expires \in Int
      \/ server[r].state = "unused"
  BY <1>2, <1>3, States DEF RegistrationsOf, IsLive
<1>7. ASSUME NEW d \in Clients
      PROVE  Stable(d)
  <2>1. \A q \in Registrations : server[q] = Gone => server'[q] = Gone
    BY <1>5, <1>6, <1>3, States DEF IsLive
  <2>2. \A q \in Registrations : IsLive(d, q) => IsLive(d, q)'
    BY <1>4, <1>5, <1>6 DEF IsLive
  <2>3. \A q \in Registrations : Owns(d, q) => Owns(d, q)'
    BY <2>1, <2>2 DEF Owns
  <2>4. \A q \in Registrations, date \in Int :
            IsLive(d, q) /\ server[q].expires >= date => server'[q].expires >= date
    BY <1>3, <1>4, <1>5, <1>6 DEF IsLive
  <2> QED BY <1>1, <2>1, <2>2, <2>3, <2>4 DEF Stable, Holds
<1>8. Types'
  <2>1. server' \in [Registrations ->
                       {Unused, Gone} \cup [state : {"live"}, endpoint : Clients,
                                            expires : Int]]
    BY <1>2, <1>3, <1>4 DEF Types
  <2>2. reply' = [d \in Clients |-> reply'[d]]
    BY <1>2, <1>3 DEF Types, Answers
  <2> QED BY <1>1, <1>3, <2>1, <2>2 DEF Types
<1>9. Owns(c, r)' /\ IsLive(c, r)' /\ server'[r].expires >= expires
  BY <1>3, <1>4, <1>5 DEF Owns, IsLive
<1>10. Holds(c, r, expires)' /\ Holds(c, r, NoDate)'
  BY <1>1, <1>3, <1>9 DEF Holds, NoDate
<1>11. ASSUME NEW location, NEW date \in {expires, NoDate},
              location = Location(r) \/ location = NoLocation,
              Answers(c, 201, location, date)
       PROVE  IInv'
  <2> DEFINE answer == Answer(FALSE, 201, location, date)
  <2>1. (201 >= 400) = FALSE
    OBVIOUS
  <2>2. reply' = [reply EXCEPT ![c] = answer]
    BY <1>11, <2>1 DEF Answers
  <2>3. /\ answer.netError = FALSE /\ answer.location = location
        /\ answer.expires = date
    BY DEF Answer
  <2>6. date \in Int
    BY <1>3, <1>11 DEF NoDate
  <2> HIDE DEF answer
  <2>4. UrlFromHref(answer.location) # NoUrl =>
            Holds(c, UrlFromHref(answer.location), answer.expires)'
    <3>1. CASE location = NoLocation
      BY <2>3, <3>1, NoLocationNoUrl
    <3>2. CASE location = Location(r)
      <4>1. UrlFromHref(answer.location) = r
        BY <2>3, <3>2, LocationLeadsBack
      <4>2. Holds(c, r, date)'
        BY <1>10, <1>11
      <4> QED BY <2>3, <4>1, <4>2 DEF Holds, Owns, IsLive
    <3> QED BY <1>11, <3>1, <3>2
  <2>5. job[c].kind # "unregister"
    BY <1>1
  <2> QED BY <1>1, <1>3, <1>7, <1>8, <2>2, <2>3, <2>4, <2>5, <2>6, Answered
<1> QED BY <1>2, <1>11

LEMMA StepServerUnregisters ==
    ASSUME IInv, NEW c \in Clients, ServerUnregisters(c)
    PROVE  IInv'
<1> DEFINE r == job[c].url
           here == r \in LiveRegistrations
           status == IF here THEN 204 ELSE 404
           failed == (status >= 400)
           answer == Answer(failed, status, NoLocation, NoDate)
<1>1. /\ job[c].kind = "unregister" /\ reply[c] = NoReply
      /\ server' = IF here THEN [server EXCEPT ![r] = Gone] ELSE server
      /\ reply' = [reply EXCEPT ![c] = answer]
      /\ UNCHANGED <<clock, app, dontNotify, job, faults, changes>>
  BY DEF ServerUnregisters, IsRequest, Answers
<1>2. Types /\ ~Idle(c) /\ Owns(c, r) /\ r \in Registrations
  <2>1. Types /\ Asked(c) /\ Known(c)
    BY DEF IInv, ClientInv
  <2>2. ~Idle(c)
    BY <1>1 DEF Idle, NoJob
  <2>3. app[c].leaving /\ r = app[c].registrationUrl
    BY <1>1, <2>1 DEF Asked
  <2>4. Owns(c, app[c].registrationUrl)
    BY <2>1, <2>3 DEF Known
  <2> QED BY <2>1, <2>2, <2>3, <2>4 DEF Owns
<1>3. here => IsLive(c, r)
  <2>1. here => server[r].state = "live"
    BY <1>2, States
  <2> QED BY <1>2, <2>1 DEF Owns, Gone
<1>4. ~here => server[r] = Gone
  BY <1>2, States DEF Owns, IsLive
<1>5. server'[r] = Gone /\ \A q \in Registrations \ {r} : server'[q] = server[q]
  BY <1>1, <1>2, <1>4 DEF Types
\* c itself wants to leave: nothing is promised of its registration any more.
<1>6. ASSUME NEW d \in Clients, d # c
      PROVE  Stable(d)
  <2>1. ~IsLive(d, r)
    <3>1. CASE here
      BY <1>3, <1>6, <3>1 DEF IsLive
    <3>2. CASE ~here
      BY <1>4, <3>2 DEF IsLive, Gone
    <3> QED BY <3>1, <3>2
  <2>2. \A q \in Registrations : IsLive(d, q) => IsLive(d, q)' /\ server'[q] = server[q]
    BY <1>5, <2>1 DEF IsLive
  <2>3. \A q \in Registrations : server[q] = Gone => server'[q] = Gone
    BY <1>5
  <2> QED BY <1>1, <2>2, <2>3 DEF Stable, Owns, Holds
<1>7. Types'
  <2>1. server' \in [Registrations ->
                       {Unused, Gone} \cup [state : {"live"}, endpoint : Clients,
                                            expires : Int]]
    BY <1>1, <1>2 DEF Types
  <2>2. reply' = [d \in Clients |-> reply'[d]]
    <3> HIDE DEF answer
    <3> QED BY <1>1, <1>2 DEF Types
  <2> QED BY <1>1, <1>2, <2>1, <2>2 DEF Types
<1>8. /\ answer.netError = failed /\ answer.location = NoLocation
      /\ answer.expires = NoDate /\ NoDate \in Int /\ failed \in BOOLEAN
  BY AnswerFields DEF NoDate
<1> HIDE DEF answer, failed, status
<1>9. reply'[c] = answer /\ \A d \in Clients \ {c} : reply'[d] = reply[d]
  BY <1>1, <1>2 DEF Types
<1>10. ClientInv(c) /\ app[c].leaving
  BY <1>1 DEF IInv, ClientInv, Asked
<1>11. Known(c)'
  <2>1. \A q \in Registrations : Owns(c, q) => Owns(c, q)'
    BY <1>1, <1>5 DEF Owns, IsLive
  <2> QED BY <1>1, <1>10, <2>1 DEF ClientInv, Known, Owns
<1>12. Asked(c)'
  BY <1>1, <1>10 DEF ClientInv, Asked
<1>13. Told(c)'
  BY <1>1, <1>2, <1>5, <1>8, <1>9 DEF Told, Idle
<1> QED BY <1>1, <1>6, <1>7, <1>9, <1>11, <1>12, <1>13, OneClient DEF ClientInv

\* An answer that says nothing about registrations.
LEMMA AnsweredPlainly ==
    ASSUME IInv, NEW c \in Clients, NEW netError \in BOOLEAN, NEW status,
           ~Idle(c),
           reply' = [reply EXCEPT ![c] = Answer(netError, status, NoLocation, NoDate)],
           UNCHANGED <<clock, server, app, dontNotify, job>>,
           job[c].kind = "unregister" => netError /\ status # 404
    PROVE  IInv'
<1> DEFINE answer == Answer(netError, status, NoLocation, NoDate)
<1>1. /\ answer.netError = netError /\ answer.location = NoLocation
      /\ answer.status = status /\ answer.expires = NoDate /\ NoDate \in Int
  BY AnswerFields DEF NoDate
<1> HIDE DEF answer
<1>2. reply' = [reply EXCEPT ![c] = answer]
  BY DEF answer
<1>3. Types'
  BY <1>2 DEF IInv, Types
<1>4. \A d \in Clients : Stable(d)
  BY NothingHappens
<1>5. UrlFromHref(answer.location) = NoUrl
  BY <1>1, NoLocationNoUrl
<1>6. job[c].kind = "unregister" => UnregistrationFailed(answer)
  BY <1>1 DEF UnregistrationFailed
<1> QED BY <1>1, <1>2, <1>3, <1>4, <1>5, <1>6, Answered

LEMMA StepServerChanges ==
    ASSUME IInv, NEW c \in Clients, ServerChanges(c)
    PROVE  IInv'
<1>1. /\ job[c].kind = "change"
      /\ reply' = [reply EXCEPT ![c] = Answer(FALSE, 204, NoLocation, NoDate)]
      /\ UNCHANGED <<clock, server, app, dontNotify, job>>
  <2>1. (204 >= 400) = FALSE
    OBVIOUS
  <2> QED BY <2>1 DEF ServerChanges, IsRequest, Answers
<1>2. ~Idle(c) /\ job[c].kind # "unregister"
  BY <1>1 DEF Idle, NoJob
<1> QED BY <1>1, <1>2, AnsweredPlainly

LEMMA StepRequestFails ==
    ASSUME IInv, NEW c \in Clients, RequestFails(c)
    PROVE  IInv'
<1>1. PICK status \in FailCodes :
         reply' = [reply EXCEPT ![c] = Answer(TRUE, status, NoLocation, NoDate)]
  BY DEF RequestFails
<1>2. ~Idle(c) /\ UNCHANGED <<clock, server, app, dontNotify, job>>
  BY DEF RequestFails
<1>3. status # 404
  BY PushAssumption
<1> QED BY <1>1, <1>2, <1>3, AnsweredPlainly

LEMMA StepAnswerLost ==
    ASSUME IInv, NEW c \in Clients, AnswerLost(c)
    PROVE  IInv'
<1>1. /\ reply[c] # NoReply
      /\ reply' = [reply EXCEPT ![c] = Answer(TRUE, 0, NoLocation, NoDate)]
      /\ UNCHANGED <<clock, server, app, dontNotify, job>>
  BY DEF AnswerLost
<1>2. ~Idle(c)
  BY <1>1 DEF IInv, ClientInv, Told
<1> DEFINE status == 0
<1>3. status # 404 /\ TRUE \in BOOLEAN
  OBVIOUS
<1>4. reply' = [reply EXCEPT ![c] = Answer(TRUE, status, NoLocation, NoDate)]
  BY <1>1
<1> HIDE DEF status
<1> QED BY <1>1, <1>2, <1>3, <1>4, AnsweredPlainly

\* A registration expires no earlier than everybody knows it will.
LEMMA StepTick ==
    ASSUME IInv, Tick
    PROVE  IInv'
<1>1. /\ clock' = clock + 1 /\ clock \in Nat
      /\ \A r \in Registrations : server'[r] =
            IF r \in LiveRegistrations /\ server[r].expires <= clock'
            THEN Gone ELSE server[r]
      /\ UNCHANGED <<app, dontNotify, job, reply>>
  BY DEF Tick, IInv, Types
<1>2. Types'
  BY <1>1 DEF Tick, IInv, Types
<1>3. ASSUME NEW c \in Clients
      PROVE  Stable(c)
  <2>1. \A r \in Registrations : server[r] = Gone => server'[r] = Gone
    BY <1>1
  <2>2. \A r \in Registrations : Owns(c, r) => Owns(c, r)'
    BY <1>1 DEF Owns, IsLive
  <2>3. ASSUME NEW r \in Registrations, NEW date \in Int, Holds(c, r, date)
        PROVE  Holds(c, r, date)'
    <3>1. Owns(c, r)'
      BY <2>2, <2>3 DEF Holds
    <3>2. ASSUME clock' < date
          PROVE  IsLive(c, r)' /\ server'[r].expires >= date
      <4>1. IsLive(c, r) /\ server[r].expires >= date
        BY <1>1, <2>3, <3>2 DEF Holds
      <4>2. server[r].expires \in Int
        BY <4>1, States DEF IInv, IsLive
      <4>3. server'[r] = server[r]
        BY <1>1, <3>2, <4>1, <4>2
      <4> QED BY <4>1, <4>3 DEF IsLive
    <3> QED BY <3>1, <3>2 DEF Holds
  <2> QED BY <2>1, <2>2, <2>3 DEF Stable
<1> QED BY <1>1, <1>2, <1>3, ClientStays DEF IInv

(***************************************************************************)
(* The handlers.                                                           *)
(***************************************************************************)

LEMMA Consumed ==
    ASSUME IInv, NEW c \in Clients, NEW state, Consumes(c, state),
           state \in [registrationUrl : Registrations \cup {NoUrl},
                      expirationDate : Int, leaving : BOOLEAN],
           state.registrationUrl # NoUrl =>
                /\ Owns(c, state.registrationUrl)
                /\ ~state.leaving =>
                      Holds(c, state.registrationUrl, state.expirationDate),
           state.leaving => state.registrationUrl # NoUrl
    PROVE  IInv' /\ app'[c] = state /\ UNCHANGED server
<1>1. /\ job' = [job EXCEPT ![c] = NoJob] /\ reply' = [reply EXCEPT ![c] = NoReply]
      /\ app' = [app EXCEPT ![c] = state] /\ UNCHANGED <<clock, server, dontNotify>>
  BY DEF Consumes
<1>2. Types'
  BY <1>1 DEF IInv, Types
<1>3. /\ job'[c] = NoJob /\ reply'[c] = NoReply /\ app'[c] = state
      /\ \A d \in Clients \ {c} : job'[d] = job[d] /\ reply'[d] = reply[d]
                                   /\ app'[d] = app[d]
  BY <1>1 DEF IInv, Types
<1>4. Known(c)'
  BY <1>1, <1>3 DEF Known, Owns, Holds, IsLive
<1>5. Asked(c)' /\ Told(c)'
  BY <1>3 DEF Asked, Told, NoJob
<1>6. ASSUME NEW d \in Clients
      PROVE  Stable(d)
  BY <1>1, NothingHappens
<1>7. IInv'
  BY <1>2, <1>3, <1>4, <1>5, <1>6, OneClient DEF ClientInv
<1> QED BY <1>1, <1>3, <1>7

LEMMA StepOnRegistrationDone ==
    ASSUME IInv, NEW c \in Clients, OnRegistrationDone(c)
    PROVE  IInv'
<1> DEFINE r == reply[c]
           url == UrlFromHref(r.location)
           kept == [app[c] EXCEPT !.registrationUrl = url,
                                  !.expirationDate = r.expires]
<1>1. /\ job[c].kind = "register" /\ r # NoReply
      /\ Consumes(c, IF r.netError \/ url = NoUrl THEN app[c] ELSE kept)
  BY DEF OnRegistrationDone, Expiration
<1>2. /\ app[c] \in [registrationUrl : Registrations \cup {NoUrl},
                     expirationDate : Int, leaving : BOOLEAN]
      /\ ClientInv(c)
  BY DEF IInv, Types
<1>3. CASE r.netError \/ url = NoUrl
  <2>1. Consumes(c, app[c])
    BY <1>1, <1>3
  <2> QED BY <1>2, <2>1, Consumed DEF ClientInv, Known
<1>4. CASE ~r.netError /\ url # NoUrl
  <2>1. Holds(c, url, r.expires) /\ r.expires \in Int
    BY <1>1, <1>2, <1>4 DEF ClientInv, Told
  <2>2. Owns(c, url) /\ url \in Registrations
    BY <2>1 DEF Holds, Owns
  <2>3. /\ kept \in [registrationUrl : Registrations \cup {NoUrl},
                     expirationDate : Int, leaving : BOOLEAN]
        /\ kept.registrationUrl = url /\ kept.expirationDate = r.expires
    BY <1>2, <2>1, <2>2
  <2>4. Consumes(c, kept)
    BY <1>1, <1>4
  <2> HIDE DEF kept, url, r
  <2> QED BY <1>4, <2>1, <2>2, <2>3, <2>4, Consumed
<1> QED BY <1>3, <1>4

LEMMA StepOnUnregistrationDone ==
    ASSUME IInv, NEW c \in Clients, OnUnregistrationDone(c)
    PROVE  /\ IInv'
           /\ ~app'[c].leaving => /\ job[c].url \in Registrations
                                  /\ server[job[c].url].state = "gone"
<1> DEFINE left == [registrationUrl |-> NoUrl, expirationDate |-> NoDate,
                    leaving |-> FALSE]
<1>1. /\ job[c].kind = "unregister" /\ reply[c] # NoReply
      /\ Consumes(c, IF UnregistrationFailed(reply[c]) THEN app[c] ELSE left)
  BY DEF OnUnregistrationDone
<1>2. /\ app[c] \in [registrationUrl : Registrations \cup {NoUrl},
                     expirationDate : Int, leaving : BOOLEAN]
      /\ ClientInv(c) /\ app[c].leaving
  BY <1>1 DEF IInv, Types, ClientInv, Asked
<1>3. CASE UnregistrationFailed(reply[c])
  <2>1. Consumes(c, app[c])
    BY <1>1, <1>3
  <2>2. IInv' /\ app'[c] = app[c]
    BY <1>2, <2>1, Consumed DEF ClientInv, Known
  <2> QED BY <1>2, <2>2
<1>4. CASE ~UnregistrationFailed(reply[c])
  <2>1. Consumes(c, left)
    BY <1>1, <1>4
  <2>2. /\ left \in [registrationUrl : Registrations \cup {NoUrl},
                     expirationDate : Int, leaving : BOOLEAN]
        /\ left.registrationUrl = NoUrl /\ left.leaving = FALSE
    BY DEF NoDate
  <2> HIDE DEF left
  <2>3. IInv'
    BY <2>1, <2>2, Consumed
  <2>4. /\ job[c].url \in Registrations /\ server[job[c].url] = Gone
    BY <1>1, <1>2, <1>4 DEF ClientInv, Asked, Known, Owns, Told
  <2> QED BY <2>3, <2>4 DEF Gone
<1> QED BY <1>3, <1>4

LEMMA StepOnChangeDone ==
    ASSUME IInv, NEW c \in Clients, OnChangeDone(c)
    PROVE  IInv'
<1>1. Consumes(c, app[c])
  BY DEF OnChangeDone
<1>2. /\ app[c] \in [registrationUrl : Registrations \cup {NoUrl},
                     expirationDate : Int, leaving : BOOLEAN]
      /\ ClientInv(c)
  BY DEF IInv, Types
<1> QED BY <1>1, <1>2, Consumed DEF ClientInv, Known

(***************************************************************************)
(* The theorems.                                                           *)
(***************************************************************************)

LEMMA InitIInv == Init => IInv
<1> SUFFICES ASSUME Init
             PROVE  IInv
  OBVIOUS
<1> USE DEF Init
<1>1. Types
  BY DEF Types, NoDate
<1>2. ASSUME NEW c \in Clients
      PROVE  ClientInv(c)
  <2>1. /\ app[c].registrationUrl = NoUrl /\ app[c].leaving = FALSE
        /\ job[c] = NoJob /\ reply[c] = NoReply /\ NoJob.kind = "none"
    BY DEF NoJob
  <2> QED BY <2>1 DEF ClientInv, Known, Asked, Told
<1> QED BY <1>1, <1>2 DEF IInv

LEMMA StepIInv == IInv /\ [Next]_vars => IInv'
<1> SUFFICES ASSUME IInv, [Next]_vars
             PROVE  IInv'
  OBVIOUS
<1>1. ASSUME NEW c \in Clients,
             StartRegister(c) \/ Leave(c) \/ StartUnregister(c) \/ StartChange(c)
      PROVE  IInv'
  BY <1>1, StepStartRegister, StepLeave, StepStartUnregister, StepStartChange
<1>2. ASSUME NEW c \in Clients,
             \/ ServerRegisters(c) \/ ServerUnregisters(c) \/ ServerChanges(c)
             \/ RequestFails(c) \/ AnswerLost(c)
      PROVE  IInv'
  BY <1>2, StepServerRegisters, StepServerUnregisters, StepServerChanges,
     StepRequestFails, StepAnswerLost
<1>3. ASSUME NEW c \in Clients,
             OnRegistrationDone(c) \/ OnUnregistrationDone(c) \/ OnChangeDone(c)
      PROVE  IInv'
  BY <1>3, StepOnRegistrationDone, StepOnUnregistrationDone, StepOnChangeDone
<1>4. CASE Tick
  BY <1>4, StepTick
<1>5. CASE UNCHANGED vars
  <2>1. /\ Types' /\ UNCHANGED <<clock, server, app, job, reply>>
    BY <1>5 DEF vars, IInv, Types
  <2>2. ASSUME NEW c \in Clients
        PROVE  ClientInv(c)'
    BY <2>1, NothingHappens, ClientStays
  <2> QED BY <2>1, <2>2 DEF IInv
<1> QED BY <1>1, <1>2, <1>3, <1>4, <1>5 DEF Next

THEOREM Invariance == Spec => []IInv
<1> QED BY InitIInv, StepIInv, PTL DEF Spec

(***************************************************************************)
(* Type correctness.  IInv holds the types of what is told and kept; the   *)
(* bounds, and the two ways an application's state is canonical, are       *)
(* preserved by themselves.                                                *)
(***************************************************************************)

ServerBounds ==
    /\ clock \in 0 .. Horizon
    /\ \A r \in Registrations :
          server[r].state = "live" => server[r].expires \in clock + 1 .. Horizon + Lifetime

Canonical ==
    \A c \in Clients :
        /\ app[c].registrationUrl = NoUrl => app[c].expirationDate = NoDate
        /\ dontNotify[c].mIgnoreAll => dontNotify[c].mIgnoredUrls = {}

Counters == faults \in 0 .. MaxFaults /\ changes \in 0 .. MaxChanges

BInv == ServerBounds /\ Canonical /\ Counters

LEMMA InitBInv == Init => BInv
<1> SUFFICES ASSUME Init
             PROVE  BInv
  OBVIOUS
<1> USE PushAssumption DEF Init
<1>1. ServerBounds
  BY DEF ServerBounds, Unused
<1>2. Canonical /\ Counters
  BY DEF Canonical, Counters
<1> QED BY <1>1, <1>2 DEF BInv

\* No registration outlives what the server may grant at the end of time, and
\* none is live that has expired.
LEMMA ServerBoundsRegisters ==
    ASSUME IInv, ServerBounds, NEW c \in Clients, ServerRegisters(c)
    PROVE  ServerBounds'
<1>1. PICK r \in Registrations, expires \in clock + 1 .. clock + Lifetime :
         server' = [server EXCEPT ![r] = Live(job[c].pushResource, expires)]
  BY DEF ServerRegisters
<1>2. UNCHANGED clock /\ clock \in 0 .. Horizon
  BY DEF ServerRegisters, ServerBounds
<1>3. server'[r].expires = expires /\ \A q \in Registrations \ {r} : server'[q] = server[q]
  BY <1>1 DEF Live, IInv, Types
<1>4. expires \in clock + 1 .. Horizon + Lifetime
  BY <1>2, PushAssumption
<1> QED BY <1>2, <1>3, <1>4 DEF ServerBounds

LEMMA ServerBoundsUnregisters ==
    ASSUME IInv, ServerBounds, NEW c \in Clients, ServerUnregisters(c)
    PROVE  ServerBounds'
<1>1. UNCHANGED clock
  BY DEF ServerUnregisters
<1>2. ASSUME NEW q \in Registrations
      PROVE  server'[q] \in {server[q], Gone}
  BY DEF ServerUnregisters, IInv, Types
<1> QED BY <1>1, <1>2 DEF ServerBounds, Gone

LEMMA ServerBoundsTick ==
    ASSUME IInv, ServerBounds, Tick
    PROVE  ServerBounds'
<1>1. clock' = clock + 1 /\ clock' \in 0 .. Horizon
  BY PushAssumption DEF Tick, ServerBounds
<1>2. ASSUME NEW q \in Registrations, server'[q].state = "live"
      PROVE  server'[q].expires \in clock' + 1 .. Horizon + Lifetime
  <2>1. server'[q] = IF q \in LiveRegistrations /\ server[q].expires <= clock'
                     THEN Gone ELSE server[q]
    BY DEF Tick
  <2>2. /\ server'[q] = server[q] /\ q \in LiveRegistrations
        /\ ~(server[q].expires <= clock')
    BY <1>2, <2>1 DEF Gone, LiveRegistrations
  <2>3. server[q].expires \in clock + 1 .. Horizon + Lifetime
    BY <2>2 DEF ServerBounds, LiveRegistrations
  <2> QED BY <1>1, <2>2, <2>3, PushAssumption
<1> QED BY <1>1, <1>2 DEF ServerBounds

\* An application either knows no registration or knows it with its date, and
\* a DavPushDontNotify ignores everything or a list.
LEMMA CanonicalApp ==
    ASSUME IInv, Canonical, NEW c \in Clients,
           OnRegistrationDone(c) \/ OnUnregistrationDone(c) \/ OnChangeDone(c) \/ Leave(c)
    PROVE  Canonical'
<1>1. /\ UNCHANGED dontNotify
      /\ \E state : /\ app' = [app EXCEPT ![c] = state]
                    /\ state.registrationUrl = NoUrl => state.expirationDate = NoDate
  <2>1. app[c] \in [registrationUrl : Registrations \cup {NoUrl},
                    expirationDate : Int, leaving : BOOLEAN]
        /\ (app[c].registrationUrl = NoUrl => app[c].expirationDate = NoDate)
    BY DEF IInv, Types, Canonical
  <2>2. CASE OnRegistrationDone(c)
    <3> DEFINE url == UrlFromHref(reply[c].location)
               kept == [app[c] EXCEPT !.registrationUrl = url,
                                      !.expirationDate = Expiration(c)]
    <3>1. Consumes(c, IF reply[c].netError \/ url = NoUrl THEN app[c] ELSE kept)
      BY <2>2 DEF OnRegistrationDone
    <3>2. kept.registrationUrl = url
      BY <2>1
    <3> HIDE DEF kept, url
    <3> QED BY <2>1, <3>1, <3>2 DEF Consumes
  <2>3. CASE OnUnregistrationDone(c)
    <3> DEFINE left == [registrationUrl |-> NoUrl, expirationDate |-> NoDate,
                        leaving |-> FALSE]
    <3>1. Consumes(c, IF UnregistrationFailed(reply[c]) THEN app[c] ELSE left)
      BY <2>3 DEF OnUnregistrationDone
    <3>2. left.expirationDate = NoDate
      OBVIOUS
    <3> HIDE DEF left
    <3> QED BY <2>1, <3>1, <3>2 DEF Consumes
  <2>4. CASE OnChangeDone(c)
    BY <2>1, <2>4 DEF OnChangeDone, Consumes
  <2>5. CASE Leave(c)
    <3> DEFINE state == [app[c] EXCEPT !.leaving = TRUE]
    <3>1. /\ app' = [app EXCEPT ![c] = state] /\ UNCHANGED dontNotify
          /\ state.registrationUrl = app[c].registrationUrl
          /\ app[c].registrationUrl # NoUrl
      BY <2>1, <2>5 DEF Leave
    <3> QED BY <3>1
  <2> QED BY <2>2, <2>3, <2>4, <2>5
<1> QED BY <1>1 DEF Canonical, IInv, Types

LEMMA CanonicalChange ==
    ASSUME IInv, Canonical, NEW c \in Clients, StartChange(c)
    PROVE  Canonical'
<1>1. PICK intent \in Intents :
         dontNotify' = [dontNotify EXCEPT ![c] =
             IF intent = "bulk" THEN SetIgnoreAll(dontNotify[c], TRUE)
             ELSE SetIgnoredUrls(dontNotify[c], {app[c].registrationUrl} \ {NoUrl})]
  BY DEF StartChange
<1>2. UNCHANGED app
  BY DEF StartChange
<1>3. dontNotify[c] \in [mIgnoreAll : BOOLEAN, mIgnoredUrls : SUBSET Registrations]
  BY DEF IInv, Types
<1>4. /\ SetIgnoreAll(dontNotify[c], TRUE).mIgnoredUrls = {}
      /\ \A urls : SetIgnoredUrls(dontNotify[c], urls).mIgnoreAll = FALSE
  BY <1>3 DEF SetIgnoreAll, SetIgnoredUrls
<1>5. dontNotify'[c].mIgnoreAll => dontNotify'[c].mIgnoredUrls = {}
  BY <1>1, <1>4 DEF IInv, Types
<1>6. \A d \in Clients \ {c} : dontNotify'[d] = dontNotify[d]
  BY <1>1 DEF IInv, Types
<1> QED BY <1>2, <1>5, <1>6 DEF Canonical

LEMMA StepBInv == IInv /\ BInv /\ [Next]_vars => BInv'
<1> SUFFICES ASSUME IInv, BInv, [Next]_vars
             PROVE  BInv'
  OBVIOUS
<1> USE DEF BInv
<1>1. ASSUME NEW c \in Clients,
             StartRegister(c) \/ Leave(c) \/ StartUnregister(c) \/ StartChange(c)
      PROVE  BInv'
  <2>1. UNCHANGED <<clock, server, faults, changes>>
    BY <1>1 DEF StartRegister, Leave, StartUnregister, StartChange, Starts
  <2>2. Canonical'
    BY <1>1, CanonicalApp, CanonicalChange
       DEF StartRegister, StartUnregister, Canonical
  <2> QED BY <2>1, <2>2 DEF ServerBounds, Counters
<1>2. ASSUME NEW c \in Clients, ServerRegisters(c) \/ ServerUnregisters(c)
      PROVE  BInv'
  <2>1. UNCHANGED <<app, dontNotify, faults, changes>>
    BY <1>2 DEF ServerRegisters, ServerUnregisters
  <2>2. Canonical' /\ Counters'
    BY <2>1 DEF Canonical, Counters
  <2>3. ServerBounds'
    BY <1>2, ServerBoundsRegisters, ServerBoundsUnregisters
  <2> QED BY <2>2, <2>3
<1>3. ASSUME NEW c \in Clients, ServerChanges(c) \/ RequestFails(c) \/ AnswerLost(c)
      PROVE  BInv'
  <2>1. UNCHANGED <<clock, server, app, dontNotify>>
    BY <1>3 DEF ServerChanges, RequestFails, AnswerLost
  <2>2. Counters'
    <3>1. \/ changes < MaxChanges /\ changes' = changes + 1 /\ faults' = faults
          \/ faults < MaxFaults /\ faults' = faults + 1 /\ changes' = changes
      BY <1>3 DEF ServerChanges, RequestFails, AnswerLost, Faulty
    <3>2. Counters /\ MaxFaults \in Nat /\ MaxChanges \in Nat
      BY PushAssumption
    <3> QED BY <3>1, <3>2 DEF Counters
  <2> QED BY <2>1, <2>2 DEF ServerBounds, Canonical
<1>4. ASSUME NEW c \in Clients,
             OnRegistrationDone(c) \/ OnUnregistrationDone(c) \/ OnChangeDone(c)
      PROVE  BInv'
  <2>1. UNCHANGED <<clock, server, faults, changes>>
    BY <1>4 DEF OnRegistrationDone, OnUnregistrationDone, OnChangeDone, Consumes
  <2>2. Canonical'
    BY <1>4, CanonicalApp
  <2> QED BY <2>1, <2>2 DEF ServerBounds, Counters
<1>5. CASE Tick
  <2>1. UNCHANGED <<app, dontNotify, faults, changes>>
    BY <1>5 DEF Tick
  <2>2. Canonical' /\ Counters'
    BY <2>1 DEF Canonical, Counters
  <2> QED BY <1>5, <2>2, ServerBoundsTick
<1>6. CASE UNCHANGED vars
  BY <1>6 DEF vars, ServerBounds, Canonical, Counters
<1> QED BY <1>1, <1>2, <1>3, <1>4, <1>5, <1>6 DEF Next

\* Every variable stays in its type: no registration is live that has expired,
\* and no answer is on its way to an application that runs no job.
THEOREM TypeCorrectness == Spec => []TypeOK
<1>1. IInv /\ BInv => TypeOK
  <2> SUFFICES ASSUME IInv, BInv
               PROVE  TypeOK
    OBVIOUS
  <2>1. ASSUME NEW r \in LiveRegistrations
        PROVE  /\ server[r].endpoint \in Clients
               /\ server[r].expires \in clock + 1 .. Horizon + Lifetime
    <3>1. r \in Registrations /\ server[r].state = "live"
      BY <2>1 DEF LiveRegistrations
    <3>2. server[r].endpoint \in Clients
      BY <3>1, States DEF IInv
    <3> QED BY <3>1, <3>2 DEF BInv, ServerBounds
  <2>2. ASSUME NEW c \in Clients
        PROVE  /\ app[c].registrationUrl = NoUrl => app[c].expirationDate = NoDate
               /\ app[c].leaving \in BOOLEAN
               /\ dontNotify[c].mIgnoreAll => dontNotify[c].mIgnoredUrls = {}
               /\ reply[c] # NoReply => ~Idle(c)
    <3>1. app[c].leaving \in BOOLEAN
      BY DEF IInv, Types
    <3>2. reply[c] # NoReply => ~Idle(c)
      BY DEF IInv, ClientInv, Told
    <3> QED BY <3>1, <3>2 DEF BInv, Canonical
  <2> QED BY <2>1, <2>2 DEF TypeOK, BInv, ServerBounds, Counters
<1> QED BY <1>1, InitBInv, StepBInv, Invariance, PTL DEF Spec

\* What the registration job returned is what the server holds.
THEOREM RegistrationsHold == Spec => []RegistrationKnown
<1>1. IInv => RegistrationKnown
  <2> SUFFICES ASSUME IInv, NEW c \in Clients,
                      app[c].registrationUrl # NoUrl, ~app[c].leaving
               PROVE  LET url == app[c].registrationUrl
                      IN  /\ url \in Registrations
                          /\ clock < app[c].expirationDate =>
                                /\ url \in RegistrationsOf(c)
                                /\ server[url].expires >= app[c].expirationDate
    BY DEF RegistrationKnown
  <2>1. Holds(c, app[c].registrationUrl, app[c].expirationDate)
    BY DEF IInv, ClientInv, Known
  <2> QED BY <2>1 DEF Holds, Owns, IsLive, RegistrationsOf, LiveRegistrations
<1> QED BY <1>1, Invariance, PTL

\* A job that says it unregistered leaves nothing registered.
THEOREM UnregistrationIsReal == Spec => UnregisteredMeansGone
<1>1. IInv /\ [Next]_vars =>
          [\A c \in Clients :
              job[c].kind = "unregister" /\ OnUnregistrationDone(c)
                  /\ ~app'[c].leaving
                  => /\ job[c].url \in Registrations
                     /\ server[job[c].url].state = "gone"]_vars
  BY StepOnUnregistrationDone
<1> QED BY <1>1, Invariance, PTL DEF Spec, UnregisteredMeansGone

\* A change is pushed to everybody but to whom it should not be.
THEOREM PushesReachOthers == Spec => OthersAreNotified
<1>1. IInv => \A c \in Clients : ServerChanges(c) =>
          IF job[c].intent = "bulk" THEN PushedTo(c) = {}
          ELSE /\ LiveRegistrations \ RegistrationsOf(c) \subseteq PushedTo(c)
               /\ app[c].registrationUrl \notin PushedTo(c)
  <2> SUFFICES ASSUME IInv, NEW c \in Clients, ServerChanges(c)
               PROVE  IF job[c].intent = "bulk" THEN PushedTo(c) = {}
                      ELSE /\ LiveRegistrations \ RegistrationsOf(c) \subseteq PushedTo(c)
                           /\ app[c].registrationUrl \notin PushedTo(c)
    OBVIOUS
  <2>1. job[c].kind = "change" /\ ClientInv(c) /\ Types
    BY DEF ServerChanges, IsRequest, IInv
  <2>2. job[c].intent \in {"bulk", "own"}
    BY <2>1 DEF ClientInv, Asked, Intents
  <2>3. CASE job[c].intent = "bulk"
    <3>1. job[c].header.form = "star"
      BY <2>1, <2>3 DEF ClientInv, Asked
    <3> QED BY <2>3, <3>1 DEF PushedTo, Ignored
  <2>4. CASE job[c].intent = "own" /\ app[c].registrationUrl = NoUrl
    <3>1. job[c].header.form = "absent"
      BY <2>1, <2>4 DEF ClientInv, Asked
    <3>2. app[c].registrationUrl \notin LiveRegistrations
      BY <2>4, PushAssumption DEF LiveRegistrations
    <3> QED BY <2>4, <3>1, <3>2 DEF PushedTo, Ignored
  <2>5. CASE job[c].intent = "own" /\ app[c].registrationUrl # NoUrl
    <3>1. job[c].header.form = "list" /\ job[c].header.urls = {app[c].registrationUrl}
      BY <2>1, <2>5 DEF ClientInv, Asked
    <3>2. Owns(c, app[c].registrationUrl)
      BY <2>1, <2>5 DEF ClientInv, Known
    <3>3. app[c].registrationUrl \in LiveRegistrations =>
              app[c].registrationUrl \in RegistrationsOf(c)
      BY <3>2 DEF Owns, IsLive, Gone, LiveRegistrations, RegistrationsOf
    <3> QED BY <2>5, <3>1, <3>3 DEF PushedTo, Ignored
  <2> QED BY <2>2, <2>3, <2>4, <2>5
<1> QED BY <1>1, Invariance, PTL DEF Spec, OthersAreNotified

=============================================================================
