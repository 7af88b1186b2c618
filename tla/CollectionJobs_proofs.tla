------------------------ MODULE CollectionJobs_proofs ------------------------
(***************************************************************************)
(* Proofs about CollectionJobs: what a finished job tells the application  *)
(* is what happened on the server, for any jobs, URLs, redirects and       *)
(* collections, whatever other clients do.                                 *)
(***************************************************************************)
EXTENDS CollectionJobs, TLAPS

(***************************************************************************)
(* The inductive invariant.  Of what is on the server it needs nothing but *)
(* made and misled: the answer on its way agrees with whether its request  *)
(* took effect unless it misleads, and a job without an answer has changed *)
(* nothing yet.                                                            *)
(***************************************************************************)

JobState ==
    [kind : {"none", "create", "modify", "delete"},
     phase : {"new", "request", "done"}, url : Urls,
     mCollection : NewCollections \cup {NoCollection},
     change : Changes \cup {NoChange},
     error : ErrorNumber, latestResponseCode : Nat]

Reply ==
    [state : {"answered"}, url : Urls, netError : BOOLEAN, status : Nat,
     location : Urls \cup {NoLocation}, propstats : SUBSET Nat]

Types ==
    /\ job \in [Jobs -> JobState]
    /\ reply \in [Jobs -> {NoReply} \cup Reply]
    /\ made \in [Jobs -> SUBSET Urls]
    /\ misled \in SUBSET Jobs

\* What the answer r to a request of this kind for this URL says of its effect,
\* unless it misleads.
Agrees(state, r, effect, j, m) ==
    /\ r.status >= 400 => effect = {}
    /\ state.kind = "modify" /\ HasError(r.propstats) => effect = {}
    /\ j \notin m =>
        /\ state.kind = "create" /\ ~r.netError /\ r.status < 400 =>
              effect = {LocationUrl(r)}
        /\ state.kind = "modify" /\ ~RequestFailed(r.netError, r.status)
              /\ ~HasError(r.propstats) => effect = {Home[state.url]}
        /\ state.kind = "delete" /\ ~r.netError => effect = {Home[state.url]}

\* A job that has not ended.
Waiting(state, r, effect, j, m) ==
    /\ state.error = NO_ERR /\ state.latestResponseCode = 0
    /\ r = NoReply => effect = {}
    /\ r # NoReply => state.phase = "request" /\ Agrees(state, r, effect, j, m)

\* A job that has ended.
RefusalCodesOf(state) ==
    \/ state.latestResponseCode >= 400
    \/ state.error \in {"ERR_COLLECTIONMODIFY_RESPONSE",
                        "ERR_COLLECTIONMODIFY_NO_PROPERITES",
                        "ERR_NO_MULTIGET"}
Place(state) == IF state.kind = "create" THEN state.url ELSE Home[state.url]
Ended(state, r, effect, j, m) ==
    /\ r = NoReply
    /\ j \notin m /\ state.error = NO_ERR => effect = {Place(state)}
    /\ RefusalCodesOf(state) => effect = {}

JobInv(j) ==
    IF Done(j) THEN Ended(job[j], reply[j], made[j], j, misled)
               ELSE Waiting(job[j], reply[j], made[j], j, misled)

IInv == Types /\ \A j \in Jobs : JobInv(j)

(***************************************************************************)
(* Facts about the data.                                                   *)
(***************************************************************************)

LEMMA NoReplyIsNone == NoReply \notin Reply
BY DEF NoReply, Reply

LEMMA ErrorNumbers ==
    /\ NO_ERR \in ErrorNumber
    /\ {"ERR_COLLECTIONCREATE", "ERR_COLLECTIONDELETE", "ERR_COLLECTIONMODIFY",
        "ERR_COLLECTIONMODIFY_RESPONSE", "ERR_COLLECTIONMODIFY_NO_PROPERITES",
        "ERR_NO_MULTIGET"} \subseteq ErrorNumber \ {NO_ERR}
BY DEF ErrorNumber, NO_ERR

LEMMA HomeIsUrl == \A u \in Urls : Home[u] \in Urls
BY CollectionJobsAssumption

LEMMA NewJobState ==
    ASSUME NEW u \in Urls
    PROVE  /\ NewJob(u) \in JobState
           /\ NewJob(u).error = NO_ERR /\ NewJob(u).latestResponseCode = 0
           /\ NewJob(u).phase = "new"
BY ErrorNumbers DEF NewJob, JobState

\* A create or modify job that starts is waiting or ends with an error, having
\* changed nothing.
LEMMA CreateStartedState ==
    ASSUME NEW state \in JobState, state.error = NO_ERR,
           state.latestResponseCode = 0, NEW j, NEW m
    PROVE  LET next == CreateStarted(state)
           IN  /\ next \in JobState
               /\ next.phase = "done" => Ended(next, NoReply, {}, j, m)
               /\ next.phase # "done" => Waiting(next, NoReply, {}, j, m)
BY ErrorNumbers
DEF CreateStarted, Sends, EndsAtOnce, JobState, Ended, Waiting, RefusalCodesOf

LEMMA ModifyStartedState ==
    ASSUME NEW state \in JobState, state.error = NO_ERR,
           state.latestResponseCode = 0, NEW j, NEW m
    PROVE  LET next == ModifyStarted(state)
           IN  /\ next \in JobState
               /\ next.phase = "done" => Ended(next, NoReply, {}, j, m)
               /\ next.phase # "done" => Waiting(next, NoReply, {}, j, m)
BY ErrorNumbers
DEF ModifyStarted, Sends, EndsAtOnce, JobState, Ended, Waiting, RefusalCodesOf

\* What a handler that fails makes of a job.
LEMMA FailsState ==
    ASSUME NEW state \in JobState, NEW status \in Nat,
           NEW number \in ErrorNumber \ {NO_ERR}
    PROVE  LET next == Fails(state, number, status)
           IN  /\ next \in JobState /\ next.phase = "done"
               /\ next.error = number /\ next.latestResponseCode = status
               /\ next.error # NO_ERR
BY DEF Fails, JobState

LEMMA FailsEnded ==
    ASSUME NEW state \in JobState, NEW status \in Nat, NEW effect, NEW j, NEW m,
           NEW number \in {"ERR_COLLECTIONCREATE", "ERR_COLLECTIONMODIFY",
                           "ERR_COLLECTIONMODIFY_RESPONSE",
                           "ERR_COLLECTIONDELETE"},
           status >= 400 \/ number = "ERR_COLLECTIONMODIFY_RESPONSE" =>
               effect = {}
    PROVE  LET next == Fails(state, number, status)
           IN  /\ next \in JobState /\ next.phase = "done"
               /\ Ended(next, NoReply, effect, j, m)
<1> DEFINE next == Fails(state, number, status)
<1>1. number \in ErrorNumber \ {NO_ERR}
  BY ErrorNumbers
<1>2. /\ next \in JobState /\ next.phase = "done"
      /\ next.error = number /\ next.latestResponseCode = status
      /\ next.error # NO_ERR
  BY <1>1, FailsState
<1> HIDE DEF next
<1>3. Ended(next, NoReply, effect, j, m)
  BY <1>2 DEF Ended, RefusalCodesOf
<1> QED BY <1>2, <1>3 DEF next

LEMMA AnswerIsReply ==
    ASSUME NEW url \in Urls, NEW netError \in BOOLEAN, NEW status \in Nat,
           NEW location \in Urls \cup {NoLocation}, NEW propstats \in SUBSET Nat
    PROVE  LET r == Answer(url, netError, status, location, propstats)
           IN  /\ r \in Reply /\ r.url = url /\ r.netError = netError /\ r.status = status
               /\ r.location = location /\ r.propstats = propstats
BY DEF Answer, Reply

LEMMA LostIsReply ==
    ASSUME NEW r \in Reply, NEW status \in Nat
    PROVE  LET lost == [r EXCEPT !.netError = TRUE, !.status = status]
           IN  /\ lost \in Reply /\ lost.url = r.url /\ lost.netError = TRUE /\ lost.status = status
               /\ lost.location = r.location /\ lost.propstats = r.propstats
BY DEF Reply

\* Job j changes to another state, the others stay as they are.
LEMMA OneJob ==
    ASSUME IInv, NEW j \in Jobs,
           NEW state \in JobState, NEW r \in {NoReply} \cup Reply,
           NEW effect \in SUBSET Urls,
           job' = [job EXCEPT ![j] = state],
           reply' = [reply EXCEPT ![j] = r],
           made' = [made EXCEPT ![j] = effect],
           misled' \in SUBSET Jobs,
           \A k \in Jobs \ {j} : (k \in misled' <=> k \in misled),
           state.phase = "done" => Ended(state, r, effect, j, misled'),
           state.phase # "done" => Waiting(state, r, effect, j, misled')
    PROVE  IInv'
<1>1. Types'
  BY DEF IInv, Types
<1>2. ASSUME NEW k \in Jobs PROVE JobInv(k)'
  <2>1. CASE k = j
    <3>1. job'[k] = state /\ reply'[k] = r /\ made'[k] = effect
      BY <2>1 DEF IInv, Types
    <3> QED BY <2>1, <3>1 DEF JobInv, Done
  <2>2. CASE k # j
    <3>1. /\ job'[k] = job[k] /\ reply'[k] = reply[k] /\ made'[k] = made[k]
          /\ (k \in misled' <=> k \in misled)
      BY <2>2 DEF IInv, Types
    <3>2. JobInv(k)
      BY DEF IInv
    <3> QED BY <3>1, <3>2 DEF JobInv, Done, Ended, Waiting, Agrees
  <2> QED BY <2>1, <2>2
<1> QED BY <1>1, <1>2 DEF IInv

LEMMA NoJob ==
    ASSUME IInv, UNCHANGED <<job, reply, historyVars>>
    PROVE  IInv'
BY DEF IInv, Types, JobInv, Done, historyVars

\* An answer comes on its way, and the request took effect as it says or it
\* misleads.
LEMMA OneAnswer ==
    ASSUME IInv, NEW j \in Jobs, job[j].phase = "request",
           NEW r \in Reply, NEW effect \in SUBSET Urls,
           job' = job,
           reply' = [reply EXCEPT ![j] = r],
           made' = [made EXCEPT ![j] = effect],
           misled' = misled \/ misled' = misled \cup {j},
           Agrees(job[j], r, effect, j, misled')
    PROVE  IInv'
<1>1. job[j] \in JobState /\ job' = [job EXCEPT ![j] = job[j]]
  BY DEF IInv, Types
<1>2. Waiting(job[j], r, effect, j, misled')
  BY NoReplyIsNone DEF IInv, JobInv, Done, Waiting
<1>3. /\ misled' \in SUBSET Jobs
      /\ \A k \in Jobs \ {j} : (k \in misled' <=> k \in misled)
  BY DEF IInv, Types
<1> QED BY <1>1, <1>2, <1>3, OneJob

(***************************************************************************)
(* Initially, and across every step.                                       *)
(***************************************************************************)

LEMMA InitIInv == Init => IInv
<1> SUFFICES ASSUME Init PROVE IInv OBVIOUS
<1>1. PICK u \in Urls : job = [j \in Jobs |-> NewJob(u)]
  BY DEF Init
<1>2. Types
  BY <1>1, NewJobState DEF Init, Types
<1>3. ASSUME NEW j \in Jobs PROVE JobInv(j)
  <2>1. job[j] = NewJob(u) /\ reply[j] = NoReply /\ made[j] = {}
    BY <1>1 DEF Init
  <2> QED BY <2>1, NewJobState DEF JobInv, Done, Waiting
<1> QED BY <1>2, <1>3 DEF IInv

LEMMA StepStart ==
    ASSUME IInv, NEW j \in Jobs,
           StartCreate(j) \/ StartModify(j) \/ StartDelete(j)
    PROVE  IInv'
<1>1. job[j].phase = "new"
  BY DEF StartCreate, StartModify, StartDelete
<1>2. reply[j] = NoReply /\ made[j] = {}
  BY <1>1 DEF IInv, JobInv, Done, Waiting
<1>3. reply = [reply EXCEPT ![j] = NoReply] /\ made = [made EXCEPT ![j] = {}]
  BY <1>2 DEF IInv, Types
\* It is enough to look at the job's new state.
<1>4. ASSUME NEW state \in JobState, Starts(j, state),
             state.phase = "done" => Ended(state, NoReply, {}, j, misled),
             state.phase # "done" => Waiting(state, NoReply, {}, j, misled)
      PROVE  IInv'
  <2>1. /\ job' = [job EXCEPT ![j] = state]
        /\ reply' = [reply EXCEPT ![j] = NoReply]
        /\ made' = [made EXCEPT ![j] = {}]
        /\ misled' = misled /\ misled \in SUBSET Jobs
    BY <1>3, <1>4 DEF Starts, historyVars, IInv, Types
  <2> QED BY <1>4, <2>1, OneJob
<1>5. CASE StartCreate(j)
  <2>1. PICK u \in Urls, c \in NewCollections :
            Starts(j, CreateStarted([NewJob(u) EXCEPT !.kind = "create",
                                                      !.mCollection = c]))
    BY <1>5 DEF StartCreate
  <2> DEFINE state == [NewJob(u) EXCEPT !.kind = "create", !.mCollection = c]
  <2>2. /\ state \in JobState
        /\ state.error = NO_ERR /\ state.latestResponseCode = 0
    BY NewJobState, ErrorNumbers DEF NewJob, JobState
  <2>3. Starts(j, CreateStarted(state)) BY <2>1
  <2> HIDE DEF state
  <2> QED BY <1>4, <2>2, <2>3, CreateStartedState
<1>6. CASE StartModify(j)
  <2>1. PICK u \in Urls, c \in Changes \cup {NoChange} :
            Starts(j, ModifyStarted([NewJob(u) EXCEPT !.kind = "modify",
                                                      !.change = c]))
    BY <1>6 DEF StartModify
  <2> DEFINE state == [NewJob(u) EXCEPT !.kind = "modify", !.change = c]
  <2>2. /\ state \in JobState
        /\ state.error = NO_ERR /\ state.latestResponseCode = 0
    BY NewJobState, ErrorNumbers DEF NewJob, JobState
  <2>3. Starts(j, ModifyStarted(state)) BY <2>1
  <2> HIDE DEF state
  <2> QED BY <1>4, <2>2, <2>3, ModifyStartedState
<1>7. CASE StartDelete(j)
  <2>1. PICK u \in Urls :
            Starts(j, Sends([NewJob(u) EXCEPT !.kind = "delete"]))
    BY <1>7 DEF StartDelete
  <2> DEFINE state == Sends([NewJob(u) EXCEPT !.kind = "delete"])
  <2>2. /\ state \in JobState /\ state.phase = "request"
        /\ state.error = NO_ERR /\ state.latestResponseCode = 0
    BY NewJobState, ErrorNumbers DEF NewJob, JobState, Sends
  <2>3. Starts(j, state) BY <2>1
  <2> HIDE DEF state
  <2>4. Waiting(state, NoReply, {}, j, misled)
    BY <2>2 DEF Waiting
  <2> QED BY <1>4, <2>2, <2>3, <2>4
<1> QED BY <1>5, <1>6, <1>7

\* The server answers a request: what the request did is in the answer.
LEMMA StepServer ==
    ASSUME IInv, NEW j \in Jobs,
           \/ ServerMkCol(j) \/ ServerPropPatch(j) \/ ServerDelete(j)
           \/ FollowedAsGet(j) \/ RequestFails(j)
    PROVE  IInv'
<1> DEFINE home == Home[job[j].url]
<1>1. job[j].phase = "request" /\ reply[j] = NoReply
  BY DEF ServerMkCol, ServerPropPatch, ServerDelete, FollowedAsGet,
         RequestFails, IsRequest, InFlight
<1>2. /\ made[j] = {} /\ job[j] \in JobState /\ {} \in SUBSET Urls
      /\ made = [made EXCEPT ![j] = {}] /\ home \in Urls
  BY <1>1, HomeIsUrl DEF IInv, Types, JobInv, Done, Waiting, JobState
<1> HIDE DEF home
<1>3. ASSUME NEW status \in Nat, NEW location \in Urls \cup {NoLocation},
             NEW propstats \in SUBSET Nat,
             Answers(j, status, location, propstats)
      PROVE  \E r \in Reply :
                /\ reply' = [reply EXCEPT ![j] = r]
                /\ r.netError <=> status >= 400
                /\ r.url = home /\ r.status = status /\ r.location = location
                /\ r.propstats = propstats
  <2> DEFINE b == status >= 400
             r == Answer(home, b, status, location, propstats)
  <2>1. reply' = [reply EXCEPT ![j] = r]
    BY <1>3 DEF Answers, home
  <2>2. b \in BOOLEAN /\ home \in Urls
    BY <1>2
  <2> HIDE DEF b
  <2>3. /\ r \in Reply /\ r.url = home /\ r.netError = b /\ r.status = status
        /\ r.location = location /\ r.propstats = propstats
    BY <1>3, <2>2 DEF Answer, Reply
  <2> HIDE DEF r
  <2>4. r.netError <=> b
    BY <2>3
  <2> QED BY <2>1, <2>3, <2>4 DEF b
<1>4. ASSUME NEW status \in Nat, NEW propstats \in SUBSET Nat,
             Refuses(j, status, propstats),
             \/ status >= 400
             \/ job[j].kind = "modify" /\ HasError(propstats)
      PROVE  IInv'
  <2>1. PICK r \in Reply : /\ reply' = [reply EXCEPT ![j] = r]
                           /\ r.netError <=> status >= 400
                           /\ r.status = status /\ r.propstats = propstats
    BY <1>3, <1>4 DEF Refuses
  <2>2. job' = job /\ made' = [made EXCEPT ![j] = {}] /\ misled' = misled
    BY <1>2, <1>4 DEF Refuses, historyVars
  <2>3. Agrees(job[j], r, {}, j, misled')
    BY <1>4, <2>1 DEF Agrees, RequestFailed
  <2> QED BY <1>1, <1>2, <2>1, <2>2, <2>3, OneAnswer
<1>5. ASSUME NEW status \in Nat, Misleads(j, status)
      PROVE  IInv'
  <2>1. PICK r \in Reply : reply' = [reply EXCEPT ![j] = r]
    BY <1>3, <1>5 DEF Misleads
  <2>2. /\ job' = job /\ made' = [made EXCEPT ![j] = {}]
        /\ misled' = misled \cup {j}
    BY <1>2, <1>5 DEF Misleads
  <2>3. Agrees(job[j], r, {}, j, misled')
    BY <2>2 DEF Agrees
  <2> QED BY <1>1, <1>2, <2>1, <2>2, <2>3, OneAnswer
<1>6. ASSUME NEW status \in Nat, NEW location \in Urls \cup {NoLocation},
             NEW propstats \in SUBSET Nat, NEW u \in Urls, NEW resource,
             Answers(j, status, location, propstats),
             TakesEffect(j, u, resource), status < 400,
             u = IF job[j].kind # "create" \/ location = NoLocation
                 THEN home ELSE location,
             ~HasError(propstats)
      PROVE  IInv'
  <2>1. PICK r \in Reply : /\ reply' = [reply EXCEPT ![j] = r]
                           /\ r.netError <=> status >= 400
                           /\ r.url = home /\ r.status = status
                           /\ r.location = location /\ r.propstats = propstats
    BY <1>3, <1>6
  <2>2. job' = job /\ made' = [made EXCEPT ![j] = {u}] /\ misled' = misled
    BY <1>2, <1>6 DEF TakesEffect
  <2>3. Agrees(job[j], r, {u}, j, misled')
    BY <1>6, <2>1 DEF Agrees, LocationUrl, home
  <2> QED BY <1>1, <2>1, <2>2, <2>3, OneAnswer, ZenonT(30)
<1>7. CASE ServerMkCol(j)
  <2>1. job[j].kind = "create" /\ ~HasError({})
    BY <1>7 DEF ServerMkCol, IsRequest, HasError
  <2>2. CASE Refuses(j, 405, {})
    BY <1>4, <2>2
  <2>3. ASSUME NEW u \in Urls, NEW location \in Urls \cup {NoLocation},
               location = u \/ (location = NoLocation /\ u = home),
               TakesEffect(j, u, Resource(WriteMkCol(protocol, job[j].mCollection), j)),
               Answers(j, 201, location, {})
        PROVE  IInv'
    <3>1. u = IF job[j].kind # "create" \/ location = NoLocation
              THEN home ELSE location
      BY <2>1, <2>3, CollectionJobsAssumption
    <3> QED BY <1>6, <2>1, <2>3, <3>1
  <2> QED BY <1>7, <2>2, <2>3 DEF ServerMkCol, home
<1>8. CASE FollowedAsGet(j)
  <2>1. Misleads(j, 200) \/ Refuses(j, 404, {})
    BY <1>8 DEF FollowedAsGet
  <2> QED BY <1>4, <1>5, <2>1
<1>9. CASE ServerPropPatch(j)
  <2>1. /\ job[j].kind = "modify"
        /\ ~HasError({200}) /\ HasError({403}) /\ HasError({403, 424})
    BY <1>9 DEF ServerPropPatch, IsRequest, HasError
  <2>2. CASE /\ TakesEffect(j, home, Changed(server[home], job[j].change, j))
             /\ Answers(j, 207, NoLocation, {200})
    BY <1>2, <1>6, <2>1, <2>2
  <2>3. ASSUME NEW propstats \in SUBSET Nat, HasError(propstats),
               Refuses(j, 207, propstats)
        PROVE  IInv'
    BY <1>4, <2>1, <2>3
  <2>4. CASE Misleads(j, 207)
    BY <1>5, <2>4
  <2>5. CASE Refuses(j, 404, {})
    BY <1>4, <2>5
  <2>6. ASSUME NEW refused, Refuses(j, 207, IF refused = Named(job[j].change)
                                            THEN {403} ELSE {403, 424})
        PROVE  IInv'
    BY <2>1, <2>3, <2>6, SMTT(20)
  <2> QED BY <1>9, <2>2, <2>4, <2>5, <2>6 DEF ServerPropPatch, home
<1>10. CASE ServerDelete(j)
  <2>1. job[j].kind = "delete" /\ ~HasError({})
    BY <1>10 DEF ServerDelete, IsRequest, HasError
  <2>2. CASE TakesEffect(j, home, Gone) /\ Answers(j, 204, NoLocation, {})
    BY <1>2, <1>6, <2>1, <2>2
  <2>3. CASE Misleads(j, 207)
    BY <1>5, <2>3
  <2>4. CASE Refuses(j, 404, {})
    BY <1>4, <2>4
  <2> QED BY <1>10, <2>2, <2>3, <2>4 DEF ServerDelete, home
<1>11. CASE RequestFails(j)
  <2>1. PICK status \in RefusalCodes :
            reply' = [reply EXCEPT ![j] = Answer(home, TRUE, status, NoLocation, {})]
    BY <1>11 DEF RequestFails, home
  <2> DEFINE r == Answer(home, TRUE, status, NoLocation, {})
  <2>2. /\ job' = job /\ made' = [made EXCEPT ![j] = {}] /\ status \in Nat
        /\ misled' = misled
    BY <1>2, <1>11, CollectionJobsAssumption DEF RequestFails, historyVars
  <2>3. r \in Reply /\ r.netError = TRUE
    BY <1>2, <2>2, AnswerIsReply
  <2> HIDE DEF r
  <2>4. Agrees(job[j], r, {}, j, misled')
    BY <2>3 DEF Agrees, RequestFailed
  <2>5. reply' = [reply EXCEPT ![j] = r]
    BY <2>1 DEF r
  <2> QED BY <1>1, <1>2, <2>2, <2>3, <2>4, <2>5, OneAnswer
<1> QED BY <1>7, <1>8, <1>9, <1>10, <1>11

\* A lost answer says less than the one it was.
LEMMA StepAnswerLost ==
    ASSUME IInv, NEW j \in Jobs, AnswerLost(j)
    PROVE  IInv'
<1>1. PICK status \in {0, reply[j].status} :
          reply' = [reply EXCEPT ![j].netError = TRUE, ![j].status = status]
  BY DEF AnswerLost
<1> DEFINE r == [reply[j] EXCEPT !.netError = TRUE, !.status = status]
<1>2. /\ reply[j] \in Reply /\ reply[j] # NoReply
      /\ job' = job /\ made' = [made EXCEPT ![j] = made[j]]
      /\ made[j] \in SUBSET Urls /\ misled' = misled
  BY DEF AnswerLost, IInv, Types, historyVars
<1>3. Waiting(job[j], reply[j], made[j], j, misled) /\ job[j].phase = "request"
  BY <1>2 DEF IInv, JobInv, Ended, Waiting
<1>4. /\ r \in Reply /\ r.netError = TRUE /\ r.status = status
      /\ r.location = reply[j].location /\ r.propstats = reply[j].propstats
  <2>1. status \in Nat
    BY <1>1, <1>2 DEF Reply
  <2> QED BY <1>2, <2>1, LostIsReply
<1>5. reply' = [reply EXCEPT ![j] = r]
  BY <1>1 DEF IInv, Types
<1>6. Agrees(job[j], r, made[j], j, misled')
  <2>1. Agrees(job[j], reply[j], made[j], j, misled)
    BY <1>2, <1>3 DEF Waiting
  <2>2. status = reply[j].status \/ status = 0
    BY <1>1
  <2> HIDE DEF r
  <2> QED BY <1>2, <1>4, <2>1, <2>2 DEF Agrees, RequestFailed
<1> HIDE DEF r
<1> QED BY <1>2, <1>3, <1>4, <1>5, <1>6, OneAnswer

\* A handler ends the job with what the answer says.
LEMMA StepFinished ==
    ASSUME IInv, NEW j \in Jobs,
           CreateFinished(j) \/ ModifyFinished(j) \/ DeleteFinished(j)
    PROVE  IInv'
<1> DEFINE r == reply[j]
           effect == made[j]
<1>1. r # NoReply
  BY DEF CreateFinished, ModifyFinished, DeleteFinished, HasAnswer
<1>2. /\ r \in Reply /\ job[j] \in JobState /\ effect \in SUBSET Urls
      /\ made = [made EXCEPT ![j] = effect]
      /\ r.status \in Nat /\ r.netError \in BOOLEAN
  BY <1>1 DEF IInv, Types, Reply
<1>3. /\ Agrees(job[j], r, effect, j, misled) /\ job[j].phase = "request"
      /\ job[j].error = NO_ERR /\ job[j].latestResponseCode = 0
  BY <1>1 DEF IInv, JobInv, Ended, Waiting
<1>4. ASSUME NEW state \in JobState, Becomes(j, state),
             state.phase = "done", Ended(state, NoReply, effect, j, misled)
      PROVE  IInv'
  <2>1. /\ job' = [job EXCEPT ![j] = state]
        /\ reply' = [reply EXCEPT ![j] = NoReply]
        /\ made' = [made EXCEPT ![j] = effect]
        /\ misled' = misled /\ misled \in SUBSET Jobs
    BY <1>2, <1>4 DEF Becomes, historyVars, IInv, Types
  <2> HIDE DEF effect
  <2> QED BY <1>2, <1>4, <2>1, OneJob
<1>5. ASSUME NEW number \in {"ERR_COLLECTIONCREATE", "ERR_COLLECTIONMODIFY",
                             "ERR_COLLECTIONMODIFY_RESPONSE",
                             "ERR_COLLECTIONDELETE"},
             NEW status \in Nat, Becomes(j, Fails(job[j], number, status)),
             status >= 400 \/ number = "ERR_COLLECTIONMODIFY_RESPONSE" =>
                 effect = {}
      PROVE  IInv'
  <2> DEFINE next == Fails(job[j], number, status)
  <2>1. Becomes(j, next)
    BY <1>5
  <2>2. /\ next \in JobState /\ next.phase = "done"
        /\ Ended(next, NoReply, effect, j, misled)
    BY <1>2, <1>5, FailsEnded
  <2> HIDE DEF next
  <2> QED BY <1>4, <2>1, <2>2
<1>6. CASE CreateFinished(j)
  <2> DEFINE url == LocationUrl(r)
             ended == Ends([job[j] EXCEPT !.url = url])
  <2>1. job[j].kind = "create" /\ url \in Urls
    BY <1>2, <1>6 DEF CreateFinished, HasAnswer, LocationUrl, Reply
  <2>2. CASE r.netError \/ r.status >= 400
    <3>1. Becomes(j, Fails(job[j], "ERR_COLLECTIONCREATE", r.status))
      BY <1>6, <2>2 DEF CreateFinished
    <3> QED BY <1>2, <1>3, <1>5, <3>1 DEF Agrees
  <2>3. CASE ~r.netError /\ r.status < 400
    <3>1. Becomes(j, ended)
      BY <1>2, <1>6, <2>3 DEF CreateFinished
    <3>2. /\ ended \in JobState /\ ended.phase = "done" /\ ended.url = url
          /\ ended.kind = "create"
          /\ ended.error = NO_ERR /\ ended.latestResponseCode = 0
      BY <1>2, <1>3, <2>1 DEF Ends, JobState
    <3>3. j \notin misled => effect = {url}
      BY <1>3, <2>1, <2>3 DEF Agrees
    <3> HIDE DEF ended
    <3>4. Ended(ended, NoReply, effect, j, misled)
      BY <3>2, <3>3, ErrorNumbers DEF Ended, RefusalCodesOf, Place
    <3> QED BY <1>4, <3>1, <3>2, <3>4
  <2> QED BY <1>2, <2>2, <2>3
\* A modify or delete job that ends well took effect at its URL's home.
<1>7. ASSUME Becomes(j, Ends(job[j])), job[j].kind # "create",
             j \notin misled => effect = {Home[job[j].url]}
      PROVE  IInv'
  <2> DEFINE ended == Ends(job[j])
  <2>1. /\ ended \in JobState /\ ended.phase = "done" /\ ended.url = job[j].url
        /\ ended.kind # "create"
        /\ ended.error = NO_ERR /\ ended.latestResponseCode = 0
    BY <1>2, <1>3, <1>7 DEF Ends, JobState
  <2>2. Becomes(j, ended) BY <1>7
  <2> HIDE DEF ended
  <2>3. Ended(ended, NoReply, effect, j, misled)
    BY <1>7, <2>1, ErrorNumbers DEF Ended, RefusalCodesOf, Place
  <2> QED BY <1>4, <2>1, <2>2, <2>3
<1>8. CASE ModifyFinished(j)
  <2>1. job[j].kind = "modify"
    BY <1>8 DEF ModifyFinished, HasAnswer
  <2>2. CASE RequestFailed(r.netError, r.status)
    <3>1. Becomes(j, Fails(job[j], "ERR_COLLECTIONMODIFY", r.status))
      BY <1>8, <2>2 DEF ModifyFinished
    <3> QED BY <1>2, <1>3, <1>5, <3>1 DEF Agrees
  <2>3. CASE ~RequestFailed(r.netError, r.status) /\ HasError(r.propstats)
    <3>1. Becomes(j, Fails(job[j], "ERR_COLLECTIONMODIFY_RESPONSE", 0))
      BY <1>3, <1>8, <2>3 DEF ModifyFinished
    <3>2. effect = {}
      BY <1>3, <2>1, <2>3 DEF Agrees
    <3> QED BY <1>5, <3>1, <3>2
  <2>4. CASE ~RequestFailed(r.netError, r.status) /\ ~HasError(r.propstats)
    <3>1. Becomes(j, Ends(job[j]))
      BY <1>8, <2>4 DEF ModifyFinished
    <3>2. j \notin misled => effect = {Home[job[j].url]}
      BY <1>3, <2>1, <2>4 DEF Agrees
    <3> QED BY <1>7, <2>1, <3>1, <3>2
  <2> QED BY <2>2, <2>3, <2>4
<1>9. CASE DeleteFinished(j)
  <2>1. job[j].kind = "delete"
    BY <1>9 DEF DeleteFinished, HasAnswer
  <2>2. CASE r.netError
    <3>1. Becomes(j, Fails(job[j], "ERR_COLLECTIONDELETE", r.status))
      BY <1>9, <2>2 DEF DeleteFinished
    <3> QED BY <1>2, <1>3, <1>5, <3>1 DEF Agrees
  <2>3. CASE ~r.netError
    <3>1. Becomes(j, Ends(job[j]))
      BY <1>9, <2>3 DEF DeleteFinished
    <3>2. j \notin misled => effect = {Home[job[j].url]}
      BY <1>3, <2>1, <2>3 DEF Agrees
    <3> QED BY <1>7, <2>1, <3>1, <3>2
  <2> QED BY <2>2, <2>3
<1> QED BY <1>6, <1>8, <1>9

LEMMA StepIInv == IInv /\ [Next]_vars => IInv'
<1> SUFFICES ASSUME IInv, [Next]_vars PROVE IInv' OBVIOUS
<1>1. ASSUME NEW o \in Others, OtherClient(o) PROVE IInv'
  BY <1>1, NoJob DEF OtherClient
<1>2. CASE Finished \/ UNCHANGED vars
  BY <1>2, NoJob DEF Finished, vars
<1> QED BY <1>1, <1>2, StepStart, StepServer, StepAnswerLost, StepFinished DEF Next

(***************************************************************************)
(* What a protocol writes of a collection is what the fetch job reads.     *)
(***************************************************************************)

LEMMA ColorRoundTrip ==
    ASSUME NEW rgb, NEW alpha
    PROVE  LET color == [rgb |-> rgb, alpha |-> alpha]
           IN  ReadColor(WriteColor(color)) = color
<1> DEFINE color == [rgb |-> rgb, alpha |-> alpha]
<1>1. Len(<<>>) = 0 /\ Len(<<rgb>>) = 1 /\ Len(<<rgb, alpha>>) = 2
  OBVIOUS
<1>2. CASE color = NoColor
  BY <1>1, <1>2 DEF WriteColor, ReadColor
<1>3. CASE color # NoColor /\ alpha = Opaque
  <2>1. WriteColor(color) = <<rgb>>
    BY <1>3 DEF WriteColor
  <2> QED BY <1>1, <1>3, <2>1 DEF ReadColor
<1>4. CASE color # NoColor /\ alpha # Opaque
  <2>1. WriteColor(color) = <<rgb, alpha>>
    BY <1>4 DEF WriteColor
  <2> QED BY <1>1, <1>4, <2>1 DEF ReadColor
<1> QED BY <1>2, <1>3, <1>4

LEMMA NoColorIsRead == ReadColor(<<>>) = NoColor
BY DEF ReadColor

\* The types of a calendar come back, unless none of them has a component: then
\* it is read with all.
LEMMA ContentTypesRoundTrip ==
    ASSUME NEW types \in SUBSET ContentType,
           types \ {"Contacts", "Timezone"} # {}
    PROVE  CaldavContentTypes({comp \in WrittenComps : CompType[comp] \in types})
               = types \ {"Contacts", "Timezone"}
<1> DEFINE comps == {comp \in WrittenComps : CompType[comp] \in types}
<1>1. /\ CompType["vcalendar"] = "Calendar" /\ CompType["vevent"] = "Events"
      /\ CompType["vtodo"] = "Todos" /\ CompType["vfreebusy"] = "FreeBusy"
      /\ CompType["vjournal"] = "Journal"
      /\ WrittenComps \subseteq DOMAIN CompType
  BY DEF CompType, WrittenComps
<1>2. \A comp \in WrittenComps :
         CompType[comp] \in ContentType \ {"Contacts", "Timezone"}
  BY <1>1 DEF WrittenComps, ContentType
<1>3. \A type \in ContentType \ {"Contacts", "Timezone"} :
         \E comp \in WrittenComps : CompType[comp] = type
  BY <1>1 DEF WrittenComps, ContentType
<1>4. comps # {} /\ comps \cap DOMAIN CompType = comps
  BY <1>1, <1>3
<1>5. {CompType[comp] : comp \in comps} = types \ {"Contacts", "Timezone"}
  BY <1>2, <1>3
<1> HIDE DEF comps
<1>6. CaldavContentTypes(comps) = {CompType[comp] : comp \in comps}
  BY <1>4 DEF CaldavContentTypes
<1> QED BY <1>5, <1>6 DEF comps

\* Nothing is written for them then.
LEMMA TypelessRoundTrip ==
    ASSUME NEW types \in SUBSET ContentType,
           types \ {"Contacts", "Timezone"} = {}
    PROVE  CaldavContentTypes({comp \in WrittenComps : CompType[comp] \in types})
               = ContentType \ {"Contacts"}
<1>1. /\ CompType["vcalendar"] = "Calendar" /\ CompType["vevent"] = "Events"
      /\ CompType["vtodo"] = "Todos" /\ CompType["vfreebusy"] = "FreeBusy"
      /\ CompType["vjournal"] = "Journal" /\ CompType["vtimezone"] = "Timezone"
      /\ DOMAIN CompType = WrittenComps \cup {"vtimezone"}
  BY DEF CompType, WrittenComps
<1>2. {comp \in WrittenComps : CompType[comp] \in types} = {}
  BY <1>1 DEF WrittenComps
<1>3. {CompType[comp] : comp \in DOMAIN CompType} = ContentType \ {"Contacts"}
  BY <1>1 DEF WrittenComps, ContentType
<1> QED BY <1>2, <1>3 DEF CaldavContentTypes

(***************************************************************************)
(* Who stored what.  A collection that a create job stored and that nobody *)
(* changed since is what the job's protocol wrote.                         *)
(***************************************************************************)

Written(j) == Resource(WriteMkCol(protocol, job[j].mCollection), j)

Stored ==
    \A u \in Urls : Present(u) =>
        /\ "by" \in DOMAIN server[u]
        /\ server[u].by \in Jobs \cup Others
        /\ \A j \in Jobs : server[u].by = j =>
              /\ job[j].phase # "new"
              /\ job[j].kind = "create" => server[u] = Written(j)

\* A create job has a collection of the application's, and sends it in a
\* protocol that can, unless it failed.
Requested(state) ==
    state.phase # "new" /\ state.kind = "create" =>
        /\ state.mCollection \in NewCollections
        /\ state.error = NO_ERR => UseMultiget(protocol)

Kept ==
    /\ protocol \in Protocol
    /\ othersDone \subseteq Others
    /\ server = [u \in Urls |-> server[u]]
    /\ \A j \in Jobs : Requested(job[j])

SInv == IInv /\ Kept /\ Stored

LEMMA InitSInv == Init => SInv
<1> SUFFICES ASSUME Init PROVE SInv OBVIOUS
<1>1. PICK u \in Urls : job = [j \in Jobs |-> NewJob(u)]
  BY DEF Init
<1>2. Kept
  BY <1>1 DEF Init, Kept, Requested, NewJob
<1>3. Stored
  BY DEF Init, Stored, Present
<1> QED BY <1>2, <1>3, InitIInv DEF SInv

\* A job that goes on with the same request: nothing on the server is about it
\* that was not before.
LEMMA JobGoesOn ==
    ASSUME SInv, IInv', NEW j \in Jobs, NEW state,
           job' = [job EXCEPT ![j] = state],
           UNCHANGED <<protocol, server, othersDone>>,
           state.phase # "new", Requested(state),
           \/ job[j].phase = "new"
           \/ state.kind = job[j].kind /\ state.mCollection = job[j].mCollection
    PROVE  SInv'
<1>1. /\ job'[j] = state
      /\ \A k \in Jobs \ {j} : job'[k] = job[k]
  BY DEF SInv, IInv, Types
<1>2. \A k \in Jobs : Requested(job'[k])
  BY <1>1 DEF SInv, Kept
<1>3. Kept'
  BY <1>2 DEF SInv, Kept, Requested
<1>4. ASSUME NEW u \in Urls, Present(u), NEW k \in Jobs, server[u].by = k
      PROVE  job'[k].phase # "new" /\ (job'[k].kind = "create" => server[u] = Written(k)')
  <2>1. job[k].phase # "new" /\ (job[k].kind = "create" => server[u] = Written(k))
    BY <1>4 DEF SInv, Stored
  <2> QED BY <1>1, <2>1 DEF Written
<1>5. Stored'
  BY <1>4 DEF SInv, Stored, Present
<1> QED BY <1>3, <1>5 DEF SInv

\* A resource is stored at u by someone who may.
LEMMA ServerGoesOn ==
    ASSUME SInv, IInv', NEW u \in Urls, NEW resource,
           server' = [server EXCEPT ![u] = resource],
           UNCHANGED <<protocol, job>>, othersDone' \subseteq Others,
           resource # Gone =>
               /\ "by" \in DOMAIN resource
               /\ resource.by \in Jobs \cup Others
               /\ \A j \in Jobs : resource.by = j =>
                     /\ job[j].phase # "new"
                     /\ job[j].kind = "create" => resource = Written(j)
    PROVE  SInv'
<1>1. /\ server'[u] = resource
      /\ \A v \in Urls \ {u} : server'[v] = server[v]
      /\ server' = [v \in Urls |-> server'[v]]
  BY DEF SInv, Kept
<1>2. Kept'
  BY <1>1 DEF SInv, Kept, Requested
<1>3. \A j : Written(j)' = Written(j)
  BY DEF Written
<1>4. ASSUME NEW v \in Urls, server'[v] # Gone
      PROVE  /\ "by" \in DOMAIN server'[v]
             /\ server'[v].by \in Jobs \cup Others
             /\ \A j \in Jobs : server'[v].by = j =>
                   /\ job[j].phase # "new"
                   /\ job[j].kind = "create" => server'[v] = Written(j)
  <2>1. CASE v = u
    BY <1>1, <1>4, <2>1
  <2>2. CASE v # u
    BY <1>1, <1>4, <2>2 DEF SInv, Stored, Present
  <2> QED BY <2>1, <2>2
<1>5. Stored'
  BY <1>3, <1>4 DEF Stored, Present
<1> QED BY <1>2, <1>5 DEF SInv

LEMMA NothingStored ==
    ASSUME SInv, IInv', UNCHANGED <<protocol, server, job, othersDone>>
    PROVE  SInv'
BY DEF SInv, Kept, Requested, Stored, Present, Written

\* A resource, as it was stored or changed, says by whom.
LEMMA ResourceBy ==
    ASSUME NEW prop, NEW by
    PROVE  Resource(prop, by).by = by /\ "by" \in DOMAIN Resource(prop, by)
BY DEF Resource

LEMMA ChangedBy ==
    ASSUME NEW resource, "by" \in DOMAIN resource, NEW change, NEW by
    PROVE  LET changed == Changed(resource, change, by)
           IN  changed.by = by /\ "by" \in DOMAIN changed
BY DEF Changed

LEMMA StepStartS ==
    ASSUME SInv, NEW j \in Jobs,
           StartCreate(j) \/ StartModify(j) \/ StartDelete(j)
    PROVE  SInv'
<1>1. IInv'
  BY StepStart DEF SInv
<1>2. ASSUME NEW state, Starts(j, state), job[j].phase = "new",
             state.phase # "new", Requested(state)
      PROVE  SInv'
  BY <1>1, <1>2, JobGoesOn DEF Starts
<1>3. CASE StartCreate(j)
  <2>1. PICK u \in Urls, c \in NewCollections :
            Starts(j, CreateStarted([NewJob(u) EXCEPT !.kind = "create",
                                                      !.mCollection = c]))
    BY <1>3 DEF StartCreate
  <2> DEFINE state == CreateStarted([NewJob(u) EXCEPT !.kind = "create",
                                                      !.mCollection = c])
  <2>2. state.phase # "new" /\ Requested(state)
    BY ErrorNumbers DEF CreateStarted, Sends, EndsAtOnce, NewJob, Requested
  <2>3. Starts(j, state) /\ job[j].phase = "new"
    BY <1>3, <2>1 DEF StartCreate
  <2> HIDE DEF state
  <2> QED BY <1>2, <2>2, <2>3
<1>4. CASE StartModify(j)
  <2>1. PICK u \in Urls, c \in Changes \cup {NoChange} :
            Starts(j, ModifyStarted([NewJob(u) EXCEPT !.kind = "modify",
                                                      !.change = c]))
    BY <1>4 DEF StartModify
  <2> DEFINE state == ModifyStarted([NewJob(u) EXCEPT !.kind = "modify",
                                                      !.change = c])
  <2>2. state.phase # "new" /\ Requested(state)
    BY DEF ModifyStarted, Sends, EndsAtOnce, NewJob, Requested
  <2>3. Starts(j, state) /\ job[j].phase = "new"
    BY <1>4, <2>1 DEF StartModify
  <2> HIDE DEF state
  <2> QED BY <1>2, <2>2, <2>3
<1>5. CASE StartDelete(j)
  <2>1. PICK u \in Urls :
            Starts(j, Sends([NewJob(u) EXCEPT !.kind = "delete"]))
    BY <1>5 DEF StartDelete
  <2> DEFINE state == Sends([NewJob(u) EXCEPT !.kind = "delete"])
  <2>2. state.phase # "new" /\ Requested(state)
    BY DEF Sends, NewJob, Requested
  <2>3. Starts(j, state) /\ job[j].phase = "new"
    BY <1>5, <2>1 DEF StartDelete
  <2> HIDE DEF state
  <2> QED BY <1>2, <2>2, <2>3
<1> QED BY <1>3, <1>4, <1>5

\* What a request stores is what the job asked for.
LEMMA StepServerS ==
    ASSUME SInv, NEW j \in Jobs,
           \/ ServerMkCol(j) \/ ServerPropPatch(j) \/ ServerDelete(j)
           \/ FollowedAsGet(j) \/ RequestFails(j) \/ AnswerLost(j)
    PROVE  SInv'
<1>1. IInv'
  BY StepServer, StepAnswerLost DEF SInv
<1>2. ASSUME NEW u \in Urls, NEW resource, TakesEffect(j, u, resource),
             resource # Gone =>
                 /\ resource.by = j /\ "by" \in DOMAIN resource
                 /\ job[j].phase # "new"
                 /\ job[j].kind = "create" => resource = Written(j)
      PROVE  SInv'
  <2>1. /\ server' = [server EXCEPT ![u] = resource]
        /\ UNCHANGED <<protocol, job>> /\ othersDone' \subseteq Others
    BY <1>2 DEF TakesEffect, SInv, Kept
  <2> QED BY <1>1, <1>2, <2>1, ServerGoesOn
<1>3. CASE UNCHANGED <<protocol, server, job, othersDone>>
  BY <1>1, <1>3, NothingStored
<1> DEFINE home == Home[job[j].url]
<1>4. job[j] \in JobState /\ home \in Urls
  BY HomeIsUrl DEF SInv, IInv, Types, JobState
<1>5. CASE ServerMkCol(j)
  <2>1. ASSUME NEW u \in Urls, TakesEffect(j, u, Written(j))
        PROVE  SInv'
    <3>1. job[j].phase = "request"
      BY <1>5 DEF ServerMkCol, IsRequest, InFlight
    <3>2. Written(j).by = j /\ "by" \in DOMAIN Written(j)
      BY ResourceBy DEF Written
    <3> QED BY <1>2, <2>1, <3>1, <3>2
  <2>2. ASSUME Refuses(j, 405, {})
        PROVE  SInv'
    BY <1>3, <2>2 DEF Refuses
  <2> QED BY <1>5, <2>1, <2>2 DEF ServerMkCol, Written
<1>6. CASE ServerPropPatch(j)
  <2>1. job[j].phase = "request" /\ job[j].kind = "modify"
    BY <1>6 DEF ServerPropPatch, IsRequest, InFlight
  <2>2. CASE /\ Present(home)
             /\ TakesEffect(j, home, Changed(server[home], job[j].change, j))
    <3> DEFINE changed == Changed(server[home], job[j].change, j)
    <3>1. "by" \in DOMAIN server[home]
      BY <1>4, <2>2 DEF SInv, Stored
    <3>2. changed.by = j /\ "by" \in DOMAIN changed
      BY <3>1, ChangedBy
    <3>3. TakesEffect(j, home, changed)
      BY <2>2
    <3> HIDE DEF changed, home
    <3> QED BY <1>2, <1>4, <2>1, <3>2, <3>3
  <2>3. ASSUME NEW status, NEW propstats, Refuses(j, status, propstats)
        PROVE  SInv'
    BY <1>3, <2>3 DEF Refuses
  <2>4. ASSUME NEW status, Misleads(j, status)
        PROVE  SInv'
    BY <1>3, <2>4 DEF Misleads
  <2> QED BY <1>6, <2>2, <2>3, <2>4 DEF ServerPropPatch
<1>7. CASE ServerDelete(j)
  <2>1. CASE TakesEffect(j, home, Gone)
    BY <1>2, <1>4, <2>1
  <2>2. ASSUME NEW status, NEW propstats, Refuses(j, status, propstats)
        PROVE  SInv'
    BY <1>3, <2>2 DEF Refuses
  <2>3. ASSUME NEW status, Misleads(j, status)
        PROVE  SInv'
    BY <1>3, <2>3 DEF Misleads
  <2> QED BY <1>7, <2>1, <2>2, <2>3 DEF ServerDelete
<1>8. CASE FollowedAsGet(j) \/ RequestFails(j) \/ AnswerLost(j)
  BY <1>3, <1>8 DEF FollowedAsGet, Misleads, Refuses, RequestFails, AnswerLost
<1> QED BY <1>5, <1>6, <1>7, <1>8

\* Other clients are no jobs of the application's.
LEMMA StepOtherClientS ==
    ASSUME SInv, NEW o \in Others, OtherClient(o)
    PROVE  SInv'
<1>1. IInv'
  BY NoJob DEF SInv, OtherClient
<1>2. ASSUME NEW u \in Urls, NEW resource,
             server' = [server EXCEPT ![u] = resource],
             resource # Gone =>
                 resource.by = o /\ "by" \in DOMAIN resource
      PROVE  SInv'
  <2>1. \A j \in Jobs : j # o
    BY CollectionJobsAssumption
  <2>2. UNCHANGED <<protocol, job>> /\ othersDone' \subseteq Others
    BY DEF OtherClient, SInv, Kept
  <2> QED BY <1>1, <1>2, <2>1, <2>2, ServerGoesOn
<1>3. PICK u \in Urls :
        \/ server' = [server EXCEPT ![u] = Resource(CaldavMkCol(Plain), o)]
        \/ server' = [server EXCEPT ![u] = Gone]
        \/ Present(u) /\ \E c \in Changes :
              server' = [server EXCEPT ![u] = Changed(@, c, o)]
  BY DEF OtherClient
<1>4. CASE server' = [server EXCEPT ![u] = Resource(CaldavMkCol(Plain), o)]
  <2> DEFINE resource == Resource(CaldavMkCol(Plain), o)
  <2>1. resource.by = o /\ "by" \in DOMAIN resource
    BY ResourceBy
  <2>2. server' = [server EXCEPT ![u] = resource]
    BY <1>4
  <2> HIDE DEF resource
  <2> QED BY <1>2, <2>1, <2>2
<1>5. CASE server' = [server EXCEPT ![u] = Gone]
  BY <1>2, <1>5
<1>6. ASSUME Present(u), NEW c \in Changes,
             server' = [server EXCEPT ![u] = Changed(@, c, o)]
      PROVE  SInv'
  <2> DEFINE resource == Changed(server[u], c, o)
  <2>1. "by" \in DOMAIN server[u]
    BY <1>6 DEF SInv, Stored
  <2>2. resource.by = o /\ "by" \in DOMAIN resource
    BY <2>1, ChangedBy
  <2>3. server' = [server EXCEPT ![u] = resource]
    BY <1>6 DEF SInv, Kept
  <2> HIDE DEF resource
  <2> QED BY <1>2, <2>2, <2>3
<1> QED BY <1>3, <1>4, <1>5, <1>6

\* A handler ends its job.
LEMMA StepFinishedS ==
    ASSUME SInv, NEW j \in Jobs,
           CreateFinished(j) \/ ModifyFinished(j) \/ DeleteFinished(j)
    PROVE  SInv'
<1>1. IInv'
  BY StepFinished DEF SInv
<1> DEFINE old == job[j]
<1>2. old \in JobState /\ old.phase = "request" /\ old.error = NO_ERR
  <2>1. reply[j] # NoReply
    BY DEF CreateFinished, ModifyFinished, DeleteFinished, HasAnswer
  <2> QED BY <2>1 DEF SInv, IInv, Types, JobInv, Ended, Waiting
<1>3. Requested(old)
  BY DEF SInv, Kept
<1>4. ASSUME NEW state, Becomes(j, state), state.phase # "new", Requested(state),
             state.kind = old.kind, state.mCollection = old.mCollection
      PROVE  SInv'
  BY <1>1, <1>4, JobGoesOn DEF Becomes
<1>5. ASSUME NEW number, NEW status, number # NO_ERR,
             Becomes(j, Fails(old, number, status))
      PROVE  SInv'
  <2> DEFINE state == Fails(old, number, status)
  <2>1. /\ state.phase # "new" /\ Requested(state)
        /\ state.kind = old.kind /\ state.mCollection = old.mCollection
    BY <1>2, <1>3, <1>5 DEF Fails, JobState, Requested
  <2>2. Becomes(j, state)
    BY <1>5
  <2> HIDE DEF state
  <2> QED BY <1>4, <2>1, <2>2
<1>6. ASSUME NEW url, Becomes(j, Ends([old EXCEPT !.url = url]))
      PROVE  SInv'
  <2> DEFINE state == Ends([old EXCEPT !.url = url])
  <2>1. /\ state.phase # "new" /\ Requested(state)
        /\ state.kind = old.kind /\ state.mCollection = old.mCollection
    BY <1>2, <1>3 DEF Ends, JobState, Requested
  <2>2. Becomes(j, state)
    BY <1>6
  <2> HIDE DEF state
  <2> QED BY <1>4, <2>1, <2>2
<1>7. old = [old EXCEPT !.url = old.url]
  BY <1>2 DEF JobState
<1>8. CASE CreateFinished(j)
  BY <1>5, <1>6, <1>8, ErrorNumbers DEF CreateFinished
<1>9. CASE ModifyFinished(j)
  BY <1>5, <1>6, <1>7, <1>9, ErrorNumbers DEF ModifyFinished
<1>10. CASE DeleteFinished(j)
  BY <1>5, <1>6, <1>7, <1>10, ErrorNumbers DEF DeleteFinished
<1> QED BY <1>8, <1>9, <1>10

LEMMA StepSInv == SInv /\ [Next]_vars => SInv'
<1> SUFFICES ASSUME SInv, [Next]_vars PROVE SInv' OBVIOUS
<1>1. CASE Finished \/ UNCHANGED vars
  <2>1. IInv'
    BY <1>1, NoJob DEF Finished, vars, SInv
  <2> QED BY <1>1, <2>1, NothingStored DEF Finished, vars
<1> QED BY <1>1, StepStartS, StepServerS, StepOtherClientS, StepFinishedS DEF Next

(***************************************************************************)
(* A job as OneEffect sees it.                                             *)
(***************************************************************************)

OneEffectStep(j) == OE(j)!Next \/ UNCHANGED OE(j)!vars

LEMMA InitOE == Init => \A j \in Jobs : OE(j)!Init
<1> SUFFICES ASSUME Init, NEW j \in Jobs PROVE OE(j)!Init OBVIOUS
<1>1. job[j].phase = "new" /\ made[j] = {}
  BY DEF Init, NewJob
<1> QED BY <1>1 DEF OE!Init, Outcome, Done

\* Nothing about the job changes but the answer to its request.
LEMMA JobStaysOE ==
    ASSUME NEW j \in Jobs, job'[j] = job[j], made'[j] = made[j],
           Done(j) => (j \in misled' <=> j \in misled)
    PROVE  OneEffectStep(j)
BY DEF OneEffectStep, OE!vars, Outcome, Done, Succeeded, Refused

\* The server handles the request of a job, which has had no effect yet.
LEMMA RequestHandledOE ==
    ASSUME IInv, NEW j \in Jobs, job'[j] = job[j], reply[j] = NoReply,
           job[j].phase = "request"
    PROVE  OneEffectStep(j)
<1>1. made[j] = {}
  BY DEF IInv, JobInv, Done, Waiting
<1>2. CASE made'[j] = made[j]
  BY <1>2, JobStaysOE DEF Done
<1>3. CASE made'[j] # made[j]
  BY <1>1, <1>3 DEF OneEffectStep, OE!Next, OE!TakesEffect, Outcome, Done
<1> QED BY <1>2, <1>3

\* A job starts, goes on or ends; when it ends, its error and response code
\* tell what the request did.
LEMMA JobGoesOnOE ==
    ASSUME IInv', NEW j \in Jobs, made'[j] = made[j],
           job[j].phase \in {"new", "request"},
           job'[j].phase \in {"request", "done"}
    PROVE  OneEffectStep(j)
<1>1. Outcome(j) = "pending"
  BY DEF Outcome, Done
<1>2. CASE job'[j].phase = "request"
  <2>1. Outcome(j)' = "pending"
    BY <1>2 DEF Outcome, Done
  <2> QED BY <1>1, <1>2, <2>1 DEF OneEffectStep, OE!Next, OE!Start, OE!vars
<1>3. CASE job'[j].phase = "done"
  <2>1. Ended(job[j], reply[j], made[j], j, misled)'
    BY <1>3 DEF IInv, JobInv, Done
  <2>2. Outcome(j)' = "done" => made'[j] # {}
    BY <2>1 DEF Ended, Outcome, Succeeded
  <2>3. Outcome(j)' = "nothing" => made'[j] = {}
    BY <2>1 DEF Ended, RefusalCodesOf, Refused, Outcome
  <2>4. Outcome(j)' \in {"done", "nothing", "unknown"}
    BY <1>3 DEF Outcome, Done
  <2> QED BY <1>1, <1>3, <2>2, <2>3, <2>4 DEF OneEffectStep, OE!Next, OE!Ends
<1> QED BY <1>2, <1>3

\* A start or a handler changes the state of its own job, and nothing else
\* that OneEffect sees.
LEMMA StartOE ==
    ASSUME IInv, NEW j \in Jobs,
           StartCreate(j) \/ StartModify(j) \/ StartDelete(j)
    PROVE  /\ UNCHANGED historyVars /\ \A k \in Jobs \ {j} : job'[k] = job[k]
           /\ job[j].phase = "new" /\ job'[j].phase \in {"request", "done"}
<1>1. job \in [Jobs -> JobState] /\ job[j].phase = "new"
  BY DEF IInv, Types, StartCreate, StartModify, StartDelete
<1>2. ASSUME NEW state, Starts(j, state), state.phase \in {"request", "done"}
      PROVE  /\ UNCHANGED historyVars /\ \A k \in Jobs \ {j} : job'[k] = job[k]
             /\ job'[j].phase \in {"request", "done"}
  BY <1>1, <1>2 DEF Starts
<1>3. ASSUME NEW u \in Urls, NEW c,
             Starts(j, CreateStarted([NewJob(u) EXCEPT !.kind = "create",
                                                       !.mCollection = c]))
      PROVE  /\ UNCHANGED historyVars /\ \A k \in Jobs \ {j} : job'[k] = job[k]
             /\ job'[j].phase \in {"request", "done"}
  <2> DEFINE state == CreateStarted([NewJob(u) EXCEPT !.kind = "create",
                                                      !.mCollection = c])
  <2>1. state.phase \in {"request", "done"}
    BY DEF CreateStarted, Sends, EndsAtOnce, NewJob
  <2>2. Starts(j, state) BY <1>3
  <2> HIDE DEF state
  <2> QED BY <1>2, <2>1, <2>2
<1>4. ASSUME NEW u \in Urls, NEW c,
             Starts(j, ModifyStarted([NewJob(u) EXCEPT !.kind = "modify",
                                                       !.change = c]))
      PROVE  /\ UNCHANGED historyVars /\ \A k \in Jobs \ {j} : job'[k] = job[k]
             /\ job'[j].phase \in {"request", "done"}
  <2> DEFINE state == ModifyStarted([NewJob(u) EXCEPT !.kind = "modify",
                                                      !.change = c])
  <2>1. state.phase \in {"request", "done"}
    BY DEF ModifyStarted, Sends, EndsAtOnce, NewJob
  <2>2. Starts(j, state) BY <1>4
  <2> HIDE DEF state
  <2> QED BY <1>2, <2>1, <2>2
<1>5. ASSUME NEW u \in Urls, Starts(j, Sends([NewJob(u) EXCEPT !.kind = "delete"]))
      PROVE  /\ UNCHANGED historyVars /\ \A k \in Jobs \ {j} : job'[k] = job[k]
             /\ job'[j].phase \in {"request", "done"}
  <2> DEFINE state == Sends([NewJob(u) EXCEPT !.kind = "delete"])
  <2>1. state.phase \in {"request", "done"}
    BY DEF Sends, NewJob
  <2>2. Starts(j, state) BY <1>5
  <2> HIDE DEF state
  <2> QED BY <1>2, <2>1, <2>2
<1> QED BY <1>1, <1>3, <1>4, <1>5 DEF StartCreate, StartModify, StartDelete

LEMMA HandlerOE ==
    ASSUME IInv, NEW j \in Jobs,
           CreateFinished(j) \/ ModifyFinished(j) \/ DeleteFinished(j)
    PROVE  /\ UNCHANGED historyVars /\ \A k \in Jobs \ {j} : job'[k] = job[k]
           /\ job[j].phase = "request" /\ job'[j].phase \in {"request", "done"}
<1> DEFINE old == job[j]
<1>1. job \in [Jobs -> JobState] /\ old.phase = "request"
  BY DEF IInv, Types, JobInv, Ended, Waiting, HasAnswer,
         CreateFinished, ModifyFinished, DeleteFinished
<1>2. old \in JobState
  BY <1>1
<1>3. ASSUME NEW state, Becomes(j, state), state.phase \in {"request", "done"}
      PROVE  /\ UNCHANGED historyVars /\ \A k \in Jobs \ {j} : job'[k] = job[k]
             /\ job'[j].phase \in {"request", "done"}
  BY <1>1, <1>3 DEF Becomes
<1>4. ASSUME NEW number, NEW status
      PROVE  Fails(old, number, status).phase \in {"request", "done"}
  BY <1>2 DEF Fails, JobState
<1>5. ASSUME NEW url
      PROVE  Ends([old EXCEPT !.url = url]).phase \in {"request", "done"}
  BY <1>2 DEF Ends, JobState
<1>6. Ends(old).phase \in {"request", "done"}
  BY <1>2 DEF Ends, JobState
<1>7. CASE CreateFinished(j)
  <2> DEFINE r == reply[j]
             state == IF r.netError \/ r.status >= 400
                      THEN Fails(old, "ERR_COLLECTIONCREATE", r.status)
                      ELSE Ends([old EXCEPT !.url = LocationUrl(r)])
  <2>1. Becomes(j, state)
    BY <1>7 DEF CreateFinished
  <2>2. state.phase \in {"request", "done"}
    BY <1>4, <1>5
  <2> HIDE DEF state
  <2> QED BY <1>1, <1>3, <2>1, <2>2
<1>8. CASE ModifyFinished(j)
  <2> DEFINE r == reply[j]
             state == IF RequestFailed(r.netError, r.status)
                      THEN Fails(old, "ERR_COLLECTIONMODIFY", r.status)
                      ELSE IF HasError(r.propstats)
                      THEN Fails(old, "ERR_COLLECTIONMODIFY_RESPONSE",
                                 old.latestResponseCode)
                      ELSE Ends(old)
  <2>1. Becomes(j, state)
    BY <1>8 DEF ModifyFinished
  <2>2. state.phase \in {"request", "done"}
    BY <1>4, <1>6
  <2> HIDE DEF state
  <2> QED BY <1>1, <1>3, <2>1, <2>2
<1>9. CASE DeleteFinished(j)
  <2> DEFINE state == IF reply[j].netError
                      THEN Fails(old, "ERR_COLLECTIONDELETE", reply[j].status)
                      ELSE Ends(old)
  <2>1. Becomes(j, state)
    BY <1>9 DEF DeleteFinished
  <2>2. state.phase \in {"request", "done"}
    BY <1>4, <1>6
  <2> HIDE DEF state
  <2> QED BY <1>1, <1>3, <2>1, <2>2
<1> QED BY <1>7, <1>8, <1>9

\* The server and the network change no job, and what they do for one request
\* is about that job alone.
LEMMA ServerOE ==
    ASSUME IInv, NEW j \in Jobs,
           \/ ServerMkCol(j) \/ ServerPropPatch(j) \/ ServerDelete(j)
           \/ FollowedAsGet(j) \/ RequestFails(j)
    PROVE  /\ job' = job
           /\ \A k \in Jobs \ {j} : /\ made'[k] = made[k]
                                     /\ (k \in misled' <=> k \in misled)
           /\ job[j].phase = "request" /\ reply[j] = NoReply
<1> DEFINE OthersStay == \A k \in Jobs \ {j} : /\ made'[k] = made[k]
                                                /\ (k \in misled' <=> k \in misled)
<1>1. made \in [Jobs -> SUBSET Urls]
  BY DEF IInv, Types
<1>2. ASSUME NEW url, NEW resource, TakesEffect(j, url, resource)
      PROVE  job' = job /\ OthersStay
  BY <1>1, <1>2 DEF TakesEffect
<1>3. ASSUME NEW status, NEW propstats, Refuses(j, status, propstats)
      PROVE  job' = job /\ OthersStay
  BY <1>3 DEF Refuses, historyVars
<1>4. ASSUME NEW status, Misleads(j, status)
      PROVE  job' = job /\ OthersStay
  BY <1>4 DEF Misleads
<1>5. job[j].phase = "request" /\ reply[j] = NoReply
  BY DEF ServerMkCol, ServerPropPatch, ServerDelete, FollowedAsGet,
         RequestFails, IsRequest, InFlight
<1> SUFFICES job' = job /\ OthersStay
  BY <1>5
<1> HIDE DEF OthersStay
<1>6. CASE ServerMkCol(j)
  BY <1>2, <1>3, <1>6 DEF ServerMkCol
<1>7. CASE ServerPropPatch(j)
  BY <1>2, <1>3, <1>4, <1>7 DEF ServerPropPatch
<1>8. CASE ServerDelete(j)
  BY <1>2, <1>3, <1>4, <1>8 DEF ServerDelete
<1>9. CASE FollowedAsGet(j)
  BY <1>3, <1>4, <1>9 DEF FollowedAsGet
<1>10. CASE RequestFails(j)
  BY <1>10 DEF RequestFails, historyVars, OthersStay
<1> QED BY <1>6, <1>7, <1>8, <1>9, <1>10

LEMMA StepOE ==
    ASSUME IInv, [Next]_vars
    PROVE  \A k \in Jobs : OneEffectStep(k)
<1> SUFFICES ASSUME NEW k \in Jobs PROVE OneEffectStep(k) OBVIOUS
<1>1. IInv'
  BY StepIInv
<1>2. ASSUME NEW j \in Jobs, StartCreate(j) \/ StartModify(j) \/ StartDelete(j)
      PROVE  OneEffectStep(k)
  BY <1>1, <1>2, StartOE, JobGoesOnOE, JobStaysOE DEF historyVars
<1>3. ASSUME NEW j \in Jobs,
             \/ ServerMkCol(j) \/ ServerPropPatch(j) \/ ServerDelete(j)
             \/ FollowedAsGet(j) \/ RequestFails(j)
      PROVE  OneEffectStep(k)
  BY <1>3, ServerOE, RequestHandledOE, JobStaysOE
<1>4. ASSUME NEW j \in Jobs,
             CreateFinished(j) \/ ModifyFinished(j) \/ DeleteFinished(j)
      PROVE  OneEffectStep(k)
  BY <1>1, <1>4, HandlerOE, JobGoesOnOE, JobStaysOE DEF historyVars
<1>5. CASE UNCHANGED <<job, historyVars>>
  BY <1>5, JobStaysOE DEF historyVars
<1>6. ASSUME NEW j \in Jobs, AnswerLost(j) PROVE UNCHANGED <<job, historyVars>>
  BY <1>6 DEF AnswerLost
<1>7. ASSUME NEW o \in Others, OtherClient(o) PROVE UNCHANGED <<job, historyVars>>
  BY <1>7 DEF OtherClient
<1>8. Finished \/ UNCHANGED vars => UNCHANGED <<job, historyVars>>
  BY DEF Finished, vars
<1> QED BY <1>2, <1>3, <1>4, <1>5, <1>6, <1>7, <1>8 DEF Next

(***************************************************************************)
(* The theorems.                                                           *)
(***************************************************************************)

\* The inductive invariant holds in every reachable state.
THEOREM Invariance == Spec => []IInv
BY InitIInv, StepIInv, PTL DEF Spec

\* A create, modify or delete job without an error whose answer did not mislead
\* took effect once and in one place: the URL it has in the end if it created,
\* else where requests for its URL are redirected to.
THEOREM SuccessIsDone == Spec => []SuccessMeansDone
<1>1. IInv => SuccessMeansDone
  BY DEF IInv, JobInv, SuccessMeansDone, Succeeded, Done, Ended, Place
<1> QED BY <1>1, Invariance, PTL

\* Whatever servers tell, a job that reports that it was refused, or that there
\* was nothing to send, changed nothing.
THEOREM RefusalIsSafe == Spec => []RefusedMeansUntouched
<1>1. IInv => RefusedMeansUntouched
  BY DEF IInv, JobInv, RefusedMeansUntouched, Refused, Ended, RefusalCodesOf
<1> QED BY <1>1, Invariance, PTL

\* Every job implements OneEffect, whatever redirects Qt follows: it makes,
\* changes or removes at most one collection, once, after start() and before
\* result(), and unless the answer misled it result() tells whether it did.
THEOREM Implementation == Spec => ActsOnce
<1>1. Init => \A j \in Jobs : OE(j)!Init
  BY InitOE
<1>2. IInv /\ [Next]_vars =>
          [\A j \in Jobs : OE(j)!Next \/ UNCHANGED OE(j)!vars]_vars
  BY StepOE DEF OneEffectStep
<1> QED BY <1>1, <1>2, Invariance, PTL DEF Spec, ActsOnce

\* Who stored which resource, in every reachable state.
LEMMA StoredInvariance == Spec => []SInv
BY InitSInv, StepSInv, PTL DEF Spec

\* Every variable stays in its type; in particular an answer is on its way for
\* a job in flight only, and what is stored was stored by someone.
THEOREM TypeCorrectness == Spec => []TypeOK
<1>1. SInv => TypeOK
  BY DEF SInv, IInv, Types, JobState, JobInv, Ended, Waiting, Kept, Requested,
         Stored, TypeOK
<1> QED BY <1>1, StoredInvariance, PTL

\* What a create job wrote is what the fetch job reads as long as nobody
\* changed it, in either protocol, whatever the collection's name, colour and
\* content types, also if it has none; and the privileges are those granted.
THEOREM CreationsAreRead == Spec => []CreatedIsFetched
<1>1. SInv => CreatedIsFetched
  <2> SUFFICES ASSUME SInv, NEW j \in Jobs, Succeeded(j), job[j].kind = "create",
                      Present(job[j].url), server[job[j].url].by = j
               PROVE  LET url == job[j].url
                          asked == Expressible(job[j].mCollection)
                      IN  /\ IsListed(url)
                          /\ Fetched(url).displayName = asked.displayName
                          /\ Fetched(url).color = asked.color
                          /\ Fetched(url).contentTypes = ReadTypes(asked.contentTypes)
                          /\ Fetched(url).privileges =
                                IF protocol = "CalDav" /\ url \in DOMAIN Granted
                                THEN GrantedPrivileges(url) ELSE AllPrivileges
    BY DEF CreatedIsFetched
  <2> DEFINE url == job[j].url
             c == job[j].mCollection
  <2>1. /\ url \in Urls /\ c \in NewCollections
        /\ protocol \in {"CalDav", "CardDav"}
    BY DEF SInv, IInv, Types, JobState, Kept, Requested, Succeeded, Done, UseMultiget
  <2>2. server[url] = Resource(WriteMkCol(protocol, c), j)
    BY <2>1 DEF SInv, Stored, Written
  <2>3. /\ c = DavCollection(c.displayName, c.color, c.contentTypes)
        /\ c.color = [rgb |-> c.color.rgb, alpha |-> c.color.alpha]
        /\ c.contentTypes \in SUBSET ContentType
    BY <2>1, NewCollectionsAssumption
  <2> HIDE DEF url, c
  <2> DEFINE asked == Expressible(c)
             granted == IF protocol = "CalDav" /\ url \in DOMAIN Granted
                        THEN GrantedPrivileges(url) ELSE AllPrivileges
  <2>4. Fetched(url).privileges = granted
    <3>1. Fetched(url).privileges =
              IF "current-user-privilege-set" \in CollectionsQuery(protocol)
                 /\ url \in DOMAIN Granted
              THEN ExtractPrivileges(Granted[url]) ELSE AllPrivileges
      BY DEF Fetched, DavCollection
    <3>2. "current-user-privilege-set" \in CollectionsQuery(protocol)
              <=> protocol = "CalDav"
      BY <2>1 DEF CollectionsQuery, CaldavCollectionQuery, CarddavCollectionQuery
    <3>3. ExtractPrivileges(Granted[url]) = GrantedPrivileges(url)
      <4>1. ASSUME NEW element
            PROVE  ParsePrivilege(element) =
                       {p \in Privileges : \/ p \in element.parts
                                          \/ (element.parts = {} /\ p = element.name)}
        BY DEF ParsePrivilege
      <4> QED BY <4>1 DEF ExtractPrivileges, GrantedPrivileges
    <3> QED BY <3>1, <3>2, <3>3
  <2> HIDE DEF granted
  <2>5. CASE protocol = "CalDav"
    <3>1. /\ server[url].resourcetype = {"collection", "calendar"}
          /\ server[url].displayname = c.displayName
          /\ server[url].color = WriteColor(c.color)
          /\ server[url].comps =
                 {comp \in WrittenComps : CompType[comp] \in c.contentTypes}
      BY <2>2, <2>5 DEF WriteMkCol, Resource, CaldavMkCol
    <3>2. IsListed(url)
      <4>1. server[url] # Gone
        BY <3>1 DEF Gone
      <4> QED BY <2>5, <3>1, <4>1 DEF Present, IsListed, ContainsCollection
    <3>3. /\ asked.displayName = c.displayName /\ asked.color = c.color
          /\ asked.contentTypes = c.contentTypes \ {"Contacts", "Timezone"}
      BY <2>3, <2>5 DEF Expressible, DavCollection
    <3>4. /\ Fetched(url).displayName = c.displayName
          /\ Fetched(url).color = ReadColor(WriteColor(c.color))
          /\ Fetched(url).contentTypes = CaldavContentTypes(server[url].comps)
      BY <2>5, <3>1 DEF Fetched, DavCollection, CollectionsQuery,
                        CaldavCollectionQuery, CollectionContentTypes
    <3>5. Fetched(url).color = c.color
      BY <2>3, <3>4, ColorRoundTrip
    <3>6. CaldavContentTypes(server[url].comps) =
              ReadTypes(c.contentTypes \ {"Contacts", "Timezone"})
      <4>1. c.contentTypes \in SUBSET ContentType
        BY <2>3
      <4>2. CASE c.contentTypes \ {"Contacts", "Timezone"} = {}
        <5>1. CaldavContentTypes({comp \in WrittenComps :
                                      CompType[comp] \in c.contentTypes})
                  = ContentType \ {"Contacts"}
          BY <4>1, <4>2, TypelessRoundTrip
        <5> QED BY <5>1, <4>2, <3>1 DEF ReadTypes
      <4>3. CASE c.contentTypes \ {"Contacts", "Timezone"} # {}
        <5>1. CaldavContentTypes({comp \in WrittenComps :
                                      CompType[comp] \in c.contentTypes})
                  = c.contentTypes \ {"Contacts", "Timezone"}
          BY <4>1, <4>3, ContentTypesRoundTrip
        <5> QED BY <5>1, <4>3, <3>1 DEF ReadTypes
      <4> QED BY <4>2, <4>3
    <3> HIDE DEF asked
    <3>7. /\ Fetched(url).displayName = asked.displayName
          /\ Fetched(url).color = asked.color
          /\ Fetched(url).contentTypes = ReadTypes(asked.contentTypes)
      BY <3>3, <3>4, <3>5, <3>6
    <3> QED BY <2>4, <3>2, <3>7 DEF url, c, asked, granted
  <2>6. CASE protocol = "CardDav"
    <3>1. /\ server[url].resourcetype = {"collection", "addressbook"}
          /\ server[url].displayname = c.displayName
      BY <2>2, <2>6 DEF WriteMkCol, Resource, CarddavMkCol
    <3>2. IsListed(url)
      <4>1. server[url] # Gone
        BY <3>1 DEF Gone
      <4> QED BY <2>6, <3>1, <4>1 DEF Present, IsListed, ContainsCollection
    <3>3. /\ asked.displayName = c.displayName /\ asked.color = NoColor
          /\ asked.contentTypes = {"Contacts"}
      BY <2>3, <2>6 DEF Expressible, DavCollection
    <3>4. /\ Fetched(url).displayName = c.displayName
          /\ Fetched(url).color = ReadColor(<<>>)
          /\ Fetched(url).contentTypes = {"Contacts"}
      BY <2>6, <3>1 DEF Fetched, DavCollection, CollectionsQuery,
                        CarddavCollectionQuery, CollectionContentTypes
    <3>5. ReadTypes({"Contacts"}) = {"Contacts"}
      BY DEF ReadTypes
    <3> HIDE DEF asked
    <3>6. /\ Fetched(url).displayName = asked.displayName
          /\ Fetched(url).color = asked.color
          /\ Fetched(url).contentTypes = ReadTypes(asked.contentTypes)
      BY <3>3, <3>4, <3>5, NoColorIsRead
    <3> QED BY <2>4, <3>2, <3>6 DEF url, c, asked, granted
  <2> QED BY <2>1, <2>5, <2>6
<1> QED BY <1>1, StoredInvariance, PTL

=============================================================================
