--------------------------- MODULE ItemJobs_proofs ---------------------------
(***************************************************************************)
(* Proofs about ItemJobs: no update of another client is lost, and what a  *)
(* job tells the application is what happened, for any number of jobs,     *)
(* other clients, URLs and versions.                                       *)
(***************************************************************************)
EXTENDS ItemJobs, FiniteSetTheorems, TLAPS

(***************************************************************************)
(* The inductive invariant.  Of the server: every version it holds or held *)
(* is on record, with an ETag of its own.  Of a job: the answer on its way *)
(* agrees with whether its request took effect.                            *)
(***************************************************************************)

EnvTypes ==
    /\ server \in [Urls -> Stored]
    /\ lastEtag \in Etag
    /\ othersDone \subseteq Others
    /\ versions \subseteq DavItem

EnvInv ==
    /\ \A u \in Urls :
        /\ server[u].etag <= lastEtag
        /\ server[u].etag = NoEtag => server[u].data = {}
        /\ server[u].etag # NoEtag => At(u, server[u]) \in versions
    /\ \A v \in versions : v.etag # NoEtag /\ v.etag <= lastEtag
    /\ \A v, w \in versions : v.etag = w.etag => v.data = w.data

Untouched(j) == wrote[j] = NoEtag /\ j \notin removed

\* No answer of the server has come that meant anything for job j.
Unmarked(j) == Untouched(j) /\ j \notin refused /\ j \notin misled

\* What job j wrote is not older than what is there.
Newest(url, etag) == server[url].etag = NoEtag \/ server[url].etag >= etag
StoredBy(j, url) ==
    /\ [url |-> url, etag |-> wrote[j], data |-> job[j].item.data] \in versions
    /\ Newest(Home[url], wrote[j])

\* The same of a job that takes its request for a success.
Kept(j, url) ==
    /\ j \notin misled => StoredBy(j, url)
    /\ j \in misled => wrote[j] = NoEtag

\* The item of job j is not what the server has and will never be again.
Outdated(j) ==
    /\ job[j].item.etag # NoEtag
    /\ server[Home[job[j].item.url]].etag # job[j].item.etag

\* The server had this there, and it is not what job j was started with.
OtherVersion(j, etag, data) ==
    \E v \in versions :
        /\ v.url = Home[job[j].item.url] /\ v.data = data
        /\ v.etag # job[j].item.etag
        /\ etag \in {NoEtag, v.etag}

\* An ETag that the server made.
Bounded(j) ==
    /\ job[j].item.etag <= lastEtag /\ wrote[j] <= lastEtag
    /\ \A fresh \in job[j].freshItem : fresh.etag <= lastEtag
    /\ reply[j] # NoReply => reply[j].etag <= lastEtag

IsGone(j) == job[j].kind = "delete" /\ reply[j].status \in {404, 410}

\* What the answer to the request of job j says of its effect.
Agrees(j) ==
    /\ reply[j].status >= 300 /\ ~IsGone(j) => Untouched(j)
    /\ job[j].kind = "create" /\ ~reply[j].netError
          /\ reply[j].status \notin RedirectCodes => StoredBy(j, reply[j].location)
    /\ job[j].kind = "modify" /\ ~reply[j].netError => Kept(j, reply[j].location)
    /\ job[j].kind = "move" /\ ~reply[j].netError =>
          j \in misled \/ wrote[j] # NoEtag
    /\ job[j].kind = "delete" /\ ~reply[j].netError =>
          j \in misled \/ j \in removed
    /\ IsGone(j) => j \in removed
    /\ j \in refused <=> reply[j].status = 412
    /\ reply[j].status = 412 => reply[j].netError
    /\ job[j].kind \in {"modify", "delete"} /\ reply[j].status = 412 => Outdated(j)
    /\ job[j].kind = "create" => j \notin misled

NewInv(j) ==
    /\ reply[j] = NoReply /\ Unmarked(j)
    /\ job[j].error = NO_ERR /\ job[j].freshItem = {}

RequestInv(j) ==
    /\ job[j].error = NO_ERR /\ job[j].freshItem = {}
    /\ reply[j] = NoReply => Unmarked(j)
    /\ reply[j] # NoReply => Agrees(j)

RefreshInv(j) ==
    /\ Stores(j) /\ job[j].error = NO_ERR /\ job[j].freshItem = {}
    /\ j \notin refused /\ Kept(j, job[j].item.url)
    /\ reply[j] # NoReply /\ ~reply[j].netError =>
          reply[j].etag = NoEtag \/ reply[j].etag >= wrote[j]

ConflictInv(j) ==
    /\ job[j].kind \in {"modify", "delete"}
    /\ job[j].error # NO_ERR /\ job[j].freshItem = {}
    /\ Conflicts(j) /\ Untouched(j) /\ Outdated(j) /\ j \in refused
    /\ reply[j] # NoReply /\ ~reply[j].netError =>
          reply[j].status = 200 /\ OtherVersion(j, reply[j].etag, reply[j].data)

HandsOutOther(j) ==
    \A fresh \in job[j].freshItem :
        /\ j \in refused /\ job[j].freshResponseCode \in 200 .. 299
        /\ fresh.url = job[j].item.url
        /\ OtherVersion(j, fresh.etag, fresh.data)

DoneInv(j) ==
    /\ reply[j] = NoReply
    /\ j \in refused <=> job[j].error # NO_ERR /\ Conflicts(j)
    /\ job[j].error = NO_ERR /\ j \notin misled =>
        /\ Stores(j) => [job[j].item EXCEPT !.etag = wrote[j]] \in versions
        /\ job[j].kind = "move" => wrote[j] # NoEtag
        /\ job[j].kind = "delete" => j \in removed
    /\ job[j].error = NO_ERR /\ job[j].kind = "modify" =>
        job[j].item.etag = NoEtag \/ job[j].item.etag >= wrote[j]
    /\ job[j].error # NO_ERR /\ job[j].latestResponseCode >= 300 => Untouched(j)
    /\ HandsOutOther(j)

JobInv(j) ==
    /\ Bounded(j)
    /\ job[j].phase = "new" => NewInv(j)
    /\ job[j].phase = "request" => RequestInv(j)
    /\ job[j].phase = "refresh" => RefreshInv(j)
    /\ job[j].phase = "conflict" => ConflictInv(j)
    /\ job[j].phase = "done" => DoneInv(j)

IInv == TypeOK /\ EnvInv /\ \A j \in Jobs : JobInv(j)

(***************************************************************************)
(* Facts about the data.                                                   *)
(***************************************************************************)

LEMMA Bounds == /\ MaxVersions \in Nat /\ 1 \in Etag /\ NoEtag \in Etag
                /\ Etag \subseteq Nat /\ NoEtag = 0
BY ItemJobsAssumption DEF Etag, NoEtag

LEMMA HomeIsUrl == /\ Homes \subseteq Urls
                   /\ \A u \in Urls : Home[u] \in Urls /\ Home[u] \in Homes
                   /\ \A u \in Homes : Home[u] = u
BY ItemJobsAssumption DEF Homes

\* What the handlers report.
Failures == {"ERR_ITEMCREATE", "ERR_ITEMMODIFY", "ERR_ITEMDELETE",
             "ERR_ITEMMOVE", "ERR_PROBLEM_WITH_REQUEST", "UserDefinedError"}

LEMMA NoReplyIsNone == NoReply \notin Reply
BY DEF NoReply, Reply

LEMMA ErrorNumbers ==
    /\ NO_ERR \in ErrorNumber /\ "UserDefinedError" # NO_ERR
    /\ {"ERR_ITEMCREATE", "ERR_ITEMMODIFY", "ERR_ITEMDELETE", "ERR_ITEMMOVE",
        "ERR_PROBLEM_WITH_REQUEST"} \subseteq ErrorNumber \ {NO_ERR}
BY DEF ErrorNumber, NO_ERR

LEMMA AnswerIsReply ==
    ASSUME NEW netError \in BOOLEAN, NEW status \in Nat, NEW location \in Urls,
           NEW version \in Stored
    PROVE  LET r == Answer(netError, status, location, version)
           IN  /\ r \in Reply /\ r.netError = netError /\ r.status = status
               /\ r.location = location /\ r.etag = version.etag
               /\ r.data = version.data
<1>1. version.etag \in Etag /\ version.data \in SUBSET Edits
  BY DEF Stored
<1>2. Answer(netError, status, location, version) \in Reply
  BY <1>1 DEF Answer, Reply
<1>3. /\ Answer(netError, status, location, version).netError = netError
      /\ Answer(netError, status, location, version).status = status
  BY DEF Answer
<1>4. /\ Answer(netError, status, location, version).location = location
      /\ Answer(netError, status, location, version).etag = version.etag
      /\ Answer(netError, status, location, version).data = version.data
  BY DEF Answer
<1> QED BY <1>2, <1>3, <1>4

LEMMA NowhereIsStored == Nowhere \in Stored /\ Nowhere.etag = NoEtag /\ Nowhere.data = {}
BY Bounds DEF Nowhere, Stored

LEMMA FailureIsReply ==
    ASSUME NEW status \in Nat, NEW location \in Urls
    PROVE  LET r == Answer(TRUE, status, location, Nowhere)
           IN  /\ r \in Reply /\ r.netError /\ r.status = status
               /\ r.etag = NoEtag
<1>1. Answer(TRUE, status, location, Nowhere) \in Reply
  BY NowhereIsStored DEF Answer, Reply, Stored
<1> QED BY <1>1, NowhereIsStored DEF Answer

LEMMA LostIsReply ==
    ASSUME NEW r \in Reply, NEW status \in Nat
    PROVE  LET lost == [r EXCEPT !.netError = TRUE, !.status = status]
           IN  /\ lost \in Reply /\ lost.netError /\ lost.status = status
               /\ lost.etag = r.etag
BY DEF Reply

LEMMA FetchedItemIsItem ==
    ASSUME NEW item \in DavItem, NEW r \in Reply
    PROVE  LET fetched == FetchedItem(item, r)
           IN  /\ fetched \in DavItem
               /\ fetched = [url |-> item.url, etag |-> r.etag, data |-> r.data]
               /\ fetched.url = item.url /\ fetched.etag = r.etag
<1> DEFINE fetched == FetchedItem(item, r)
<1>1. item.url \in Urls /\ r.etag \in Etag /\ r.data \in SUBSET Edits
  BY DEF DavItem, Reply
<1>2. fetched \in DavItem
  BY <1>1 DEF FetchedItem, DavItem
<1>3. fetched.url = item.url /\ fetched.etag = r.etag /\ fetched.data = r.data
  BY DEF FetchedItem, DavItem
<1> HIDE DEF fetched
<1>4. fetched = [url |-> fetched.url, etag |-> fetched.etag, data |-> fetched.data]
  BY <1>2 DEF DavItem
<1> QED BY <1>2, <1>3, <1>4 DEF fetched

(***************************************************************************)
(* How the server changes: a version is replaced by a newer one or by      *)
(* nothing, and none is forgotten.                                         *)
(***************************************************************************)

Evolves ==
    /\ lastEtag <= lastEtag' /\ versions \subseteq versions'
    /\ \A u \in Urls : \/ server'[u] = server[u]
                       \/ server'[u].etag = NoEtag
                       \/ server'[u].etag > lastEtag

\* A new version at a URL; what was at others may be removed.
LEMMA VersionEvolves ==
    ASSUME IInv, NEW url \in Urls, NEW data \in SUBSET Edits,
           lastEtag < MaxVersions, lastEtag' = lastEtag + 1,
           server' \in [Urls -> Stored],
           server'[url] = [etag |-> lastEtag + 1, data |-> data],
           \A u \in Urls \ {url} : server'[u] = server[u] \/ server'[u] = Nowhere,
           versions' = versions \cup {[url |-> url, etag |-> lastEtag + 1, data |-> data]},
           othersDone' \subseteq Others
    PROVE  /\ EnvTypes' /\ EnvInv' /\ Evolves
           /\ [url |-> url, etag |-> lastEtag + 1, data |-> data] \in versions'
           /\ server'[url].etag = lastEtag + 1
<1> DEFINE stored == [etag |-> lastEtag + 1, data |-> data]
           version == [url |-> url, etag |-> lastEtag + 1, data |-> data]
<1>1. server'[url] = stored /\ versions' = versions \cup {version}
  OBVIOUS
<1>2. /\ lastEtag \in Nat /\ lastEtag + 1 \in Etag /\ lastEtag + 1 # NoEtag
      /\ server \in [Urls -> Stored] /\ versions \subseteq DavItem
  BY Bounds DEF IInv, TypeOK, Etag
<1>3. version \in DavItem /\ At(url, stored) = version
  BY <1>2 DEF DavItem, At
<1>4. /\ stored.etag = lastEtag + 1 /\ version.etag = lastEtag + 1
      /\ version.url = url
  OBVIOUS
<1> HIDE DEF stored, version
<1>6. EnvTypes'
  BY <1>1, <1>2, <1>3 DEF EnvTypes
<1>7. \A u \in Urls : /\ server'[u].etag <= lastEtag'
                      /\ server'[u].etag = NoEtag => server'[u].data = {}
                      /\ server'[u].etag # NoEtag => At(u, server'[u]) \in versions'
  <2> SUFFICES ASSUME NEW u \in Urls
               PROVE  /\ server'[u].etag <= lastEtag'
                      /\ server'[u].etag = NoEtag => server'[u].data = {}
                      /\ server'[u].etag # NoEtag => At(u, server'[u]) \in versions'
    OBVIOUS
  <2>1. CASE u = url
    BY <1>1, <1>2, <1>3, <1>4, <2>1
  <2>2. CASE server'[u] = server[u]
    <3>1. server[u].etag \in Nat
      BY <1>2, Bounds DEF Stored
    <3> QED BY <1>1, <1>2, <2>2, <3>1 DEF IInv, EnvInv
  <2>3. CASE server'[u] = Nowhere
    BY <1>2, <2>3, NowhereIsStored, Bounds
  <2> QED BY <2>1, <2>2, <2>3
<1>8. \A v \in versions : v.etag \in Nat /\ v.etag <= lastEtag /\ v.etag # NoEtag
  BY <1>2, Bounds DEF IInv, EnvInv, DavItem
<1>9. \A v \in versions' : v.etag # NoEtag /\ v.etag <= lastEtag'
  BY <1>1, <1>2, <1>4, <1>8
<1>10. \A v, w \in versions' : v.etag = w.etag => v.data = w.data
  <2> SUFFICES ASSUME NEW v \in versions', NEW w \in versions', v.etag = w.etag
               PROVE  v.data = w.data
    OBVIOUS
  <2>1. CASE v \in versions /\ w \in versions
    BY <2>1 DEF IInv, EnvInv
  <2>2. CASE v = version \/ w = version
    BY <1>1, <1>2, <1>4, <1>8, <2>2
  <2> QED BY <1>1, <2>1, <2>2
<1>11. EnvInv'
  BY <1>7, <1>9, <1>10 DEF EnvInv
<1>12. Evolves
  <2>1. server'[url].etag > lastEtag
    BY <1>1, <1>2, <1>4
  <2> QED BY <1>1, <1>2, <2>1, NowhereIsStored DEF Evolves
<1>13. version \in versions'
  BY <1>1
<1> QED BY <1>1, <1>4, <1>6, <1>11, <1>12, <1>13 DEF version

LEMMA StoresEvolves ==
    ASSUME IInv, NEW url \in Urls, NEW data \in SUBSET Edits, StoresAt(url, data),
           othersDone' \subseteq Others
    PROVE  /\ EnvTypes' /\ EnvInv' /\ Evolves /\ lastEtag' = lastEtag + 1
           /\ [url |-> url, etag |-> lastEtag + 1, data |-> data] \in versions'
           /\ server'[url].etag = lastEtag + 1
<1> DEFINE stored == [etag |-> lastEtag + 1, data |-> data]
<1>1. /\ lastEtag < MaxVersions /\ lastEtag' = lastEtag + 1
      /\ server' = [server EXCEPT ![url] = stored]
      /\ versions' = versions \cup {[url |-> url, etag |-> lastEtag + 1, data |-> data]}
  BY DEF StoresAt
<1>2. server \in [Urls -> Stored] /\ stored \in Stored
  BY <1>1, Bounds DEF IInv, TypeOK, Etag, Stored
<1> HIDE DEF stored
<1>3. /\ server' \in [Urls -> Stored] /\ server'[url] = stored
      /\ \A u \in Urls \ {url} : server'[u] = server[u]
  BY <1>1, <1>2
<1>4. server'[url] = [etag |-> lastEtag + 1, data |-> data]
  BY <1>3 DEF stored
<1> QED BY <1>1, <1>3, <1>4, VersionEvolves

LEMMA MoveEvolves ==
    ASSUME IInv, NEW to \in Urls, NEW from \in Urls, to # from,
           lastEtag < MaxVersions, lastEtag' = lastEtag + 1,
           server' = [server EXCEPT
                 ![to] = [etag |-> lastEtag + 1, data |-> server[from].data],
                 ![from] = Nowhere],
           versions' = versions \cup {At(to, server'[to])},
           othersDone' \subseteq Others
    PROVE  EnvTypes' /\ EnvInv' /\ Evolves
<1> DEFINE stored == [etag |-> lastEtag + 1, data |-> server[from].data]
<1>1. server \in [Urls -> Stored] /\ server[from].data \in SUBSET Edits
      /\ stored \in Stored
  BY Bounds DEF IInv, TypeOK, Etag, Stored
<1>2. At(to, stored) = [url |-> to, etag |-> lastEtag + 1, data |-> server[from].data]
  BY DEF At
<1>3. server' = [server EXCEPT ![to] = stored, ![from] = Nowhere]
  OBVIOUS
<1> HIDE DEF stored
<1>4. /\ server' \in [Urls -> Stored] /\ server'[to] = stored
      /\ \A u \in Urls \ {to} : server'[u] = server[u] \/ server'[u] = Nowhere
  BY <1>1, <1>3, NowhereIsStored
<1>5. server'[to] = [etag |-> lastEtag + 1, data |-> server[from].data]
  BY <1>4 DEF stored
<1>6. versions' = versions \cup {[url |-> to, etag |-> lastEtag + 1,
                                 data |-> server[from].data]}
  BY <1>2, <1>4
<1> QED BY <1>1, <1>4, <1>5, <1>6, VersionEvolves

LEMMA RemovalEvolves ==
    ASSUME IInv, NEW url \in Urls, server' = [server EXCEPT ![url] = Nowhere],
           othersDone' \subseteq Others, UNCHANGED <<lastEtag, versions>>
    PROVE  EnvTypes' /\ EnvInv' /\ Evolves
<1>1. server \in [Urls -> Stored] /\ lastEtag \in Nat
  BY Bounds DEF IInv, TypeOK
<1>2. server'[url] = Nowhere /\ \A u \in Urls \ {url} : server'[u] = server[u]
  BY <1>1
<1>3. EnvTypes'
  BY NowhereIsStored DEF IInv, TypeOK, EnvTypes
<1>4. EnvInv'
  BY <1>1, <1>2, NowhereIsStored, Bounds DEF IInv, EnvInv
<1>5. Evolves
  BY <1>1, <1>2, NowhereIsStored DEF Evolves
<1> QED BY <1>3, <1>4, <1>5

LEMMA NothingEvolves ==
    ASSUME IInv, UNCHANGED <<envVars, versions>>
    PROVE  EnvTypes' /\ EnvInv' /\ Evolves
BY Bounds DEF IInv, TypeOK, EnvTypes, EnvInv, Evolves, envVars

\* The marks the server's steps leave on a job: unchanged, for job j or for
\* all the others.
SameMarks(j) == /\ j \in removed' <=> j \in removed
                /\ j \in refused' <=> j \in refused
                /\ j \in misled' <=> j \in misled
MarksOnly(j) == /\ removed \subseteq removed' /\ removed' \subseteq removed \cup {j}
                /\ refused \subseteq refused' /\ refused' \subseteq refused \cup {j}
                /\ misled \subseteq misled' /\ misled' \subseteq misled \cup {j}

LEMMA NoMarks ==
    ASSUME UNCHANGED <<removed, refused, misled>>
    PROVE  \A j : MarksOnly(j) /\ SameMarks(j)
BY DEF MarksOnly, SameMarks

\* A job whose own state and history do not change.
LEMMA JobStays ==
    ASSUME IInv, Evolves, EnvTypes', NEW j \in Jobs,
           job'[j] = job[j], reply'[j] = reply[j], wrote'[j] = wrote[j],
           SameMarks(j)
    PROVE  JobInv(j)'
<1>1. /\ JobInv(j) /\ job[j] \in JobState /\ wrote[j] \in Nat /\ lastEtag \in Nat
      /\ lastEtag' \in Nat /\ reply[j] \in {NoReply} \cup Reply
  BY Bounds DEF IInv, TypeOK, EnvTypes
<1>2. /\ job[j].item \in DavItem /\ job[j].item.url \in Urls
      /\ job[j].item.etag \in Nat
      /\ \A fresh \in job[j].freshItem : fresh.etag \in Nat
      /\ reply[j] # NoReply => reply[j].etag \in Nat /\ reply[j].location \in Urls
  BY <1>1, Bounds DEF JobState, DavItem, Reply
<1>3. Bounded(j)'
  BY <1>1, <1>2 DEF JobInv, Bounded, Evolves
<1>4. /\ Untouched(j)' <=> Untouched(j)
      /\ Unmarked(j)' <=> Unmarked(j)
  BY DEF Untouched, Unmarked, SameMarks
<1>5. \A u \in Urls : /\ StoredBy(j, u) => StoredBy(j, u)'
                      /\ Kept(j, u) => Kept(j, u)'
  <2> SUFFICES ASSUME NEW u \in Urls
               PROVE  /\ StoredBy(j, u) => StoredBy(j, u)'
                      /\ Kept(j, u) => Kept(j, u)'
    OBVIOUS
  <2>1. StoredBy(j, u) => StoredBy(j, u)'
    <3>1. server[Home[u]].etag \in Nat /\ server'[Home[u]].etag \in Nat
      BY HomeIsUrl, Bounds DEF IInv, TypeOK, EnvTypes, Stored
    <3> QED BY <1>1, <3>1, HomeIsUrl DEF StoredBy, Newest, Evolves, JobInv, Bounded
  <2> QED BY <2>1 DEF Kept, SameMarks
<1>6. Outdated(j) => Outdated(j)'
  <2>1. Home[job[j].item.url] \in Urls /\ server'[Home[job[j].item.url]].etag \in Nat
    BY <1>2, HomeIsUrl, Bounds DEF EnvTypes, Stored
  <2> QED BY <1>1, <1>2, <2>1 DEF Outdated, Evolves, JobInv, Bounded
<1>7. /\ Conflicts(j)' = Conflicts(j) /\ Stores(j)' = Stores(j)
      /\ IsGone(j)' = IsGone(j)
  BY DEF Conflicts, Stores, IsGone
<1>8. /\ versions \subseteq versions'
      /\ \A etag, data : OtherVersion(j, etag, data) => OtherVersion(j, etag, data)'
  BY DEF Evolves, OtherVersion
<1>9. NewInv(j) => NewInv(j)'
  BY <1>4 DEF NewInv
<1>10. RequestInv(j) => RequestInv(j)'
  BY <1>2, <1>4, <1>5, <1>6, <1>7 DEF RequestInv, Agrees, SameMarks
<1>11. RefreshInv(j) => RefreshInv(j)'
  BY <1>2, <1>5, <1>7 DEF RefreshInv, SameMarks
<1>12. ConflictInv(j) => ConflictInv(j)'
  BY <1>4, <1>6, <1>7, <1>8 DEF ConflictInv, SameMarks
<1>13. DoneInv(j) => DoneInv(j)'
  <2>1. HandsOutOther(j) => HandsOutOther(j)'
    BY <1>8 DEF HandsOutOther, SameMarks
  <2> QED BY <1>4, <1>7, <1>8, <2>1 DEF DoneInv, SameMarks
<1> QED BY <1>1, <1>3, <1>9, <1>10, <1>11, <1>12, <1>13 DEF JobInv

\* Job j changes, gets an answer or leaves its mark on the server.
LEMMA OneJob ==
    ASSUME IInv, EnvTypes', EnvInv', Evolves, NEW j \in Jobs,
           NEW state \in JobState, NEW r \in {NoReply} \cup Reply, NEW e \in Etag,
           job' = [job EXCEPT ![j] = state],
           reply' = [reply EXCEPT ![j] = r],
           wrote' = [wrote EXCEPT ![j] = e],
           MarksOnly(j),
           JobInv(j)'
    PROVE  IInv'
<1>1. TypeOK'
  BY DEF IInv, TypeOK, EnvTypes, MarksOnly
<1>2. ASSUME NEW k \in Jobs \ {j} PROVE JobInv(k)'
  <2>1. /\ job'[k] = job[k] /\ reply'[k] = reply[k] /\ wrote'[k] = wrote[k]
        /\ SameMarks(k)
    BY DEF IInv, TypeOK, MarksOnly, SameMarks
  <2> QED BY <2>1, JobStays
<1> QED BY <1>1, <1>2 DEF IInv

\* Nothing of the jobs changes.
LEMMA NoJob ==
    ASSUME IInv, EnvTypes', EnvInv', Evolves,
           UNCHANGED <<job, reply, wrote, removed, refused, misled>>
    PROVE  IInv'
<1>1. TypeOK'
  BY DEF IInv, TypeOK, EnvTypes
<1>2. ASSUME NEW k \in Jobs PROVE JobInv(k)'
  BY JobStays, NoMarks
<1> QED BY <1>1, <1>2 DEF IInv

(***************************************************************************)
(* Initially, and across every step.                                       *)
(***************************************************************************)

LEMMA InitIInv == Init => IInv
<1> SUFFICES ASSUME Init PROVE IInv OBVIOUS
<1>1. PICK full \in {u \in SUBSET Homes : Cardinality(u) <= 1} :
         /\ server = [u \in Urls |-> IF u \in full THEN [etag |-> 1, data |-> {}]
                                                   ELSE Nowhere]
         /\ lastEtag = Cardinality(full)
         /\ versions = {At(u, [etag |-> 1, data |-> {}]) : u \in full}
  BY DEF Init
<1>2. lastEtag \in {0, 1} /\ (full # {} => lastEtag = 1)
  <2>1. IsFiniteSet(full)
    BY ItemJobsAssumption, HomeIsUrl, FS_Subset
  <2>2. Cardinality(full) \in Nat /\ (Cardinality(full) = 0 <=> full = {})
    BY <2>1, FS_CardinalityType, FS_EmptySet
  <2> QED BY <1>1, <2>2
<1> DEFINE first == [etag |-> 1, data |-> {}]
<1>3. first \in Stored /\ first.etag = 1 /\ first.data = {}
  BY Bounds DEF Stored
<1>4. \A u \in full : At(u, first) = [url |-> u, etag |-> 1, data |-> {}]
  BY DEF At
<1>5. EnvTypes
  <2>1. server \in [Urls -> Stored]
    BY <1>1, <1>3, NowhereIsStored
  <2>2. lastEtag \in Etag /\ othersDone \subseteq Others
    BY <1>2, Bounds DEF Init, NoEtag
  <2>3. versions \subseteq DavItem
    <3>1. \A u \in full : [url |-> u, etag |-> 1, data |-> {}] \in DavItem
      BY Bounds, HomeIsUrl DEF DavItem
    <3> QED BY <1>1, <1>4, <3>1
  <2> QED BY <2>1, <2>2, <2>3 DEF EnvTypes
<1>6. EnvInv
  <2>1. \A u \in Urls : /\ u \in full => server[u] = first
                        /\ u \notin full => server[u] = Nowhere
    BY <1>1
  <2>4. \A u \in full : At(u, first) \in versions
    BY <1>1
  <2> HIDE DEF first
  <2>2. \A u \in Urls : /\ server[u].etag <= lastEtag
                        /\ server[u].etag = NoEtag => server[u].data = {}
                        /\ server[u].etag # NoEtag => At(u, server[u]) \in versions
    BY <2>1, <2>4, <1>2, <1>3, NowhereIsStored, Bounds
  <2>3. \A v \in versions : v.etag = 1 /\ v.data = {} /\ lastEtag = 1
    <3>1. versions = {At(u, first) : u \in full}
      BY <1>1 DEF first
    <3>2. \A u \in full : At(u, first).etag = 1 /\ At(u, first).data = {}
      BY <1>4
    <3> QED BY <3>1, <3>2, <1>2
  <2>5. \A v \in versions : v.etag # NoEtag /\ v.etag <= lastEtag
    BY <2>3, <1>2, Bounds
  <2>6. \A v, w \in versions : v.etag = w.etag => v.data = w.data
    BY <2>3
  <2> QED BY <2>2, <2>5, <2>6 DEF EnvInv
<1>7. PICK u \in Urls :
         job = [j \in Jobs |->
                  [kind |-> "none", phase |-> "new",
                   item |-> At(u, Nowhere), destination |-> u,
                   freshItem |-> {}, freshResponseCode |-> 0,
                   error |-> NO_ERR, latestResponseCode |-> 0,
                   redirectCount |-> 0]]
  BY DEF Init
<1>8. At(u, Nowhere) \in DavItem /\ At(u, Nowhere).etag = NoEtag
  BY Bounds DEF At, Nowhere, DavItem
<1>9. TypeOK
  <2>1. job \in [Jobs -> JobState]
    BY <1>7, <1>8, ErrorNumbers DEF JobState, Kind, Phase
  <2>2. /\ reply \in [Jobs -> {NoReply} \cup Reply] /\ wrote \in [Jobs -> Etag]
        /\ removed \subseteq Jobs /\ refused \subseteq Jobs /\ misled \subseteq Jobs
    BY Bounds DEF Init
  <2> QED BY <1>5, <2>1, <2>2 DEF EnvTypes, TypeOK
<1>10. ASSUME NEW j \in Jobs PROVE JobInv(j)
  <2>1. /\ job[j].phase = "new" /\ job[j].item.etag = NoEtag
        /\ job[j].freshItem = {} /\ job[j].error = NO_ERR
        /\ reply[j] = NoReply /\ Unmarked(j)
    BY <1>7, <1>8 DEF Init, Unmarked, Untouched
  <2>2. wrote[j] <= lastEtag /\ job[j].item.etag <= lastEtag
    BY <1>2, <2>1, Bounds DEF Unmarked, Untouched
  <2> QED BY <2>1, <2>2 DEF JobInv, Bounded, NewInv
<1> QED BY <1>6, <1>9, <1>10 DEF IInv

\* An item that a job returned.
LEMMA ReturnedItems ==
    ASSUME IInv, NEW item \in Returned
    PROVE  item \in DavItem /\ item.etag <= lastEtag
<1>1. PICK i \in Jobs : item = job[i].item \/ item \in job[i].freshItem
  BY DEF Returned
<1>2. job[i] \in JobState /\ Bounded(i)
  BY DEF IInv, TypeOK, JobInv
<1> QED BY <1>1, <1>2 DEF JobState, Bounded

LEMMA StepStart ==
    ASSUME IInv, NEW j \in Jobs, Starts(j)
    PROVE  IInv'
<1>1. job[j].phase = "new"
  BY DEF Starts, StartCreate, StartModify, StartDelete, StartMove, StartFetch, IsNew
<1>2. /\ job[j] \in JobState /\ NewInv(j) /\ Bounded(j) /\ wrote[j] \in Etag
      /\ reply = [reply EXCEPT ![j] = reply[j]]
      /\ wrote = [wrote EXCEPT ![j] = wrote[j]]
  BY <1>1 DEF IInv, TypeOK, JobInv
\* The kind of job and its item do not matter yet.
<1>3. ASSUME NEW kind \in Kind, NEW item \in DavItem, NEW u \in Urls,
             NEW code \in Int, StartWith(j, kind, item, u, code),
             item.etag <= lastEtag
      PROVE  IInv'
  <2> DEFINE state == [job[j] EXCEPT !.kind = kind, !.phase = "request",
                                     !.item = item, !.destination = u,
                                     !.freshResponseCode = code]
  <2>1. /\ job' = [job EXCEPT ![j] = state]
        /\ UNCHANGED <<server, lastEtag, othersDone, reply, versions, wrote,
                       removed, refused, misled>>
    BY <1>3 DEF StartWith, envVars, historyVars
  <2>2. /\ state \in JobState /\ state.phase = "request" /\ state.item = item
        /\ state.kind = kind /\ state.destination = u
        /\ state.error = job[j].error /\ state.freshItem = job[j].freshItem
    BY <1>2, <1>3 DEF JobState, Phase
  <2> HIDE DEF state
  <2>3. job'[j] = state
    BY <2>1 DEF IInv, TypeOK
  <2>4. JobInv(j)'
    <3>1. Unmarked(j)' /\ reply'[j] = NoReply
      BY <1>2, <2>1 DEF NewInv, Unmarked, Untouched
    <3>2. Bounded(j)'
      BY <1>2, <1>3, <2>1, <2>2, <2>3 DEF Bounded
    <3>3. RequestInv(j)'
      BY <1>2, <1>3, <2>2, <2>3, <3>1 DEF NewInv, RequestInv
    <3> QED BY <2>2, <2>3, <3>2, <3>3 DEF JobInv
  <2>5. EnvTypes' /\ EnvInv' /\ Evolves
    BY <2>1, NothingEvolves DEF envVars
  <2>6. /\ reply' = [reply EXCEPT ![j] = reply[j]] /\ wrote' = [wrote EXCEPT ![j] = wrote[j]]
        /\ reply[j] \in {NoReply} \cup Reply
        /\ MarksOnly(j)
    BY <1>2, <2>1, NoMarks DEF NewInv
  <2> QED BY <1>2, <2>1, <2>2, <2>4, <2>5, <2>6, OneJob
<1>4. CASE StartCreate(j)
  <2>1. PICK u \in Urls :
            StartWith(j, "create", [url |-> u, etag |-> NoEtag, data |-> {j}], u, 0)
    BY <1>4 DEF StartCreate
  <2> DEFINE item == [url |-> u, etag |-> NoEtag, data |-> {j}]
  <2>2. item \in DavItem /\ item.etag <= lastEtag
    BY Bounds DEF IInv, TypeOK, DavItem, Edits
  <2> HIDE DEF item
  <2>3. StartWith(j, "create", item, u, 0) BY <2>1 DEF item
  <2> QED BY <1>3, <2>2, <2>3 DEF Kind
<1>5. CASE StartModify(j)
  <2>1. PICK returned \in Returned :
            StartWith(j, "modify", [returned EXCEPT !.data = @ \cup {j}],
                      returned.url, 0)
    BY <1>5 DEF StartModify
  <2>2. returned \in DavItem /\ returned.etag <= lastEtag
    BY ReturnedItems
  <2> DEFINE item == [returned EXCEPT !.data = @ \cup {j}]
  <2>3. item \in DavItem /\ item.etag = returned.etag /\ returned.url \in Urls
    BY <2>2 DEF DavItem, Edits
  <2> HIDE DEF item
  <2>4. StartWith(j, "modify", item, returned.url, 0) BY <2>1 DEF item
  <2> QED BY <1>3, <2>2, <2>3, <2>4 DEF Kind
<1>6. CASE StartDelete(j)
  <2>1. PICK item \in Returned : StartWith(j, "delete", item, item.url, -1)
    BY <1>6 DEF StartDelete
  <2>2. item \in DavItem /\ item.etag <= lastEtag /\ item.url \in Urls
    BY ReturnedItems DEF DavItem
  <2> QED BY <1>3, <2>1, <2>2 DEF Kind
<1>7. CASE StartMove(j)
  <2>1. PICK item \in Returned : \E u \in Urls \ {item.url} : StartWith(j, "move", item, u, -1)
    BY <1>7 DEF StartMove
  <2>2. item \in DavItem /\ item.etag <= lastEtag
    BY ReturnedItems
  <2> QED BY <1>3, <2>1, <2>2 DEF Kind
<1>8. CASE StartFetch(j)
  <2>1. PICK u \in Urls : StartWith(j, "fetch", At(u, Nowhere), u, 0)
    BY <1>8 DEF StartFetch
  <2>2. At(u, Nowhere) \in DavItem /\ At(u, Nowhere).etag <= lastEtag
    BY Bounds DEF At, Nowhere, DavItem, IInv, TypeOK
  <2> QED BY <1>3, <2>1, <2>2 DEF Kind
<1> QED BY <1>4, <1>5, <1>6, <1>7, <1>8 DEF Starts

LEMMA StepOtherClient ==
    ASSUME IInv, NEW o \in Others, OtherClient(o)
    PROVE  IInv'
<1>1. PICK u \in Homes :
         \/ StoresAt(u, server[u].data \cup {o})
         \/ /\ server' = [server EXCEPT ![u] = Nowhere]
            /\ UNCHANGED <<lastEtag, versions>>
  BY DEF OtherClient
<1>2. /\ othersDone' \subseteq Others
      /\ UNCHANGED <<job, reply, wrote, removed, refused, misled>>
  BY DEF OtherClient, IInv, TypeOK
<1>3. u \in Urls /\ server[u].data \cup {o} \in SUBSET Edits
  BY HomeIsUrl DEF IInv, TypeOK, Stored, Edits
<1>4. EnvTypes' /\ EnvInv' /\ Evolves
  BY <1>1, <1>2, <1>3, StoresEvolves, RemovalEvolves
<1> QED BY <1>2, <1>4, NoJob

(***************************************************************************)
(* The server's answers.                                                   *)
(***************************************************************************)

\* Job j gets an answer that its phase allows.
LEMMA OneAnswer ==
    ASSUME IInv, EnvTypes', EnvInv', Evolves, NEW j \in Jobs,
           NEW r \in Reply, NEW e \in Etag,
           job' = job,
           reply' = [reply EXCEPT ![j] = r],
           wrote' = [wrote EXCEPT ![j] = e],
           MarksOnly(j),
           r.etag <= lastEtag', e <= lastEtag',
           job[j].phase \in {"request", "refresh", "conflict"},
           job[j].phase = "request" => RequestInv(j)',
           job[j].phase = "refresh" => RefreshInv(j)',
           job[j].phase = "conflict" => ConflictInv(j)'
    PROVE  IInv'
<1>1. job[j] \in JobState /\ job' = [job EXCEPT ![j] = job[j]] /\ Bounded(j)
  BY DEF IInv, TypeOK, JobInv
<1>2. reply'[j] = r /\ wrote'[j] = e /\ job'[j] = job[j]
  BY DEF IInv, TypeOK
<1>3. Bounded(j)'
  <2>1. /\ lastEtag \in Nat /\ lastEtag' \in Nat /\ lastEtag <= lastEtag'
        /\ job[j].item.etag \in Nat
        /\ \A fresh \in job[j].freshItem : fresh.etag \in Nat
    BY <1>1, Bounds DEF IInv, TypeOK, EnvTypes, Evolves, JobState, DavItem
  <2> QED BY <1>1, <1>2, <2>1 DEF Bounded
<1>4. JobInv(j)'
  BY <1>2, <1>3 DEF JobInv
<1> QED BY <1>1, <1>4, OneJob

\* The answer to a request agrees with its effect.
LEMMA OneRequestAnswered ==
    ASSUME IInv, EnvTypes', EnvInv', Evolves, NEW j \in Jobs,
           job[j].phase = "request", NEW r \in Reply, NEW e \in Etag,
           job' = job,
           reply' = [reply EXCEPT ![j] = r],
           wrote' = [wrote EXCEPT ![j] = e],
           MarksOnly(j),
           r.etag <= lastEtag', e <= lastEtag',
           Agrees(j)'
    PROVE  IInv'
<1>1. reply'[j] = r /\ r # NoReply
  BY NoReplyIsNone DEF IInv, TypeOK
<1>2. RequestInv(j)
  BY DEF IInv, JobInv
<1>3. RequestInv(j)'
  BY <1>1, <1>2 DEF RequestInv
<1> QED BY <1>3, OneAnswer

\* What is known of a job that waits for the answer to its request.
LEMMA Requested ==
    ASSUME IInv, NEW j \in Jobs, job[j].phase = "request", reply[j] = NoReply
    PROVE  /\ Unmarked(j) /\ Untouched(j) /\ wrote = [wrote EXCEPT ![j] = NoEtag]
           /\ job[j] \in JobState /\ job[j].item \in DavItem
           /\ job[j].item.url \in Urls /\ Home[job[j].item.url] \in Urls
           /\ job[j].item.etag \in Nat /\ job[j].item.etag <= lastEtag
           /\ lastEtag \in Nat /\ NoEtag \in Etag /\ NoEtag <= lastEtag
           /\ \A u \in Urls : server[u] \in Stored /\ server[u].etag \in Nat
<1>1. /\ Unmarked(j) /\ Untouched(j) /\ job[j] \in JobState
      /\ wrote[j] = NoEtag /\ Bounded(j)
  BY DEF IInv, TypeOK, JobInv, RequestInv, Unmarked, Untouched
<1>2. wrote = [wrote EXCEPT ![j] = NoEtag]
  BY <1>1 DEF IInv, TypeOK
<1>3. job[j].item \in DavItem
  BY <1>1 DEF JobState
<1>4. /\ job[j].item.url \in Urls /\ Home[job[j].item.url] \in Urls
      /\ job[j].item.etag \in Nat
  BY <1>3, Bounds, HomeIsUrl DEF DavItem
<1>5. lastEtag \in Nat /\ NoEtag \in Etag /\ NoEtag <= lastEtag
  BY Bounds DEF IInv, TypeOK
<1>6. \A u \in Urls : server[u] \in Stored /\ server[u].etag \in Nat
  BY Bounds DEF IInv, TypeOK, Stored
<1> QED BY <1>1, <1>2, <1>3, <1>4, <1>5, <1>6 DEF Bounded

\* An answer that says nothing of a version, in terms of its fields.
LEMMA AnswerFields ==
    ASSUME IInv, NEW j \in Jobs, NEW status \in Nat, NEW location \in Urls,
           NEW version \in Stored, Answers(j, status, location, version)
    PROVE  \E r \in Reply :
              /\ reply' = [reply EXCEPT ![j] = r] /\ reply'[j] = r
              /\ r.netError <=> status >= 400
              /\ r.status = status /\ r.location = location
              /\ r.etag = version.etag /\ r.data = version.data
<1> DEFINE b == status >= 400
           r == Answer(b, status, location, version)
<1>1. reply' = [reply EXCEPT ![j] = r]
  BY DEF Answers
<1>2. b \in BOOLEAN
  OBVIOUS
<1> HIDE DEF b
<1>3. /\ r \in Reply /\ r.netError = b /\ r.status = status
      /\ r.location = location /\ r.etag = version.etag /\ r.data = version.data
  BY <1>2, AnswerIsReply
<1> HIDE DEF r
<1>4. reply'[j] = r
  BY <1>1 DEF IInv, TypeOK
<1>5. r.netError <=> b
  BY <1>3
<1> QED BY <1>1, <1>3, <1>4, <1>5 DEF b

\* The same of an answer without a version.
LEMMA EmptyAnswer ==
    ASSUME IInv, NEW j \in Jobs, NEW status \in Nat, NEW location \in Urls,
           Answers(j, status, location, Nowhere)
    PROVE  \E r \in Reply :
              /\ reply' = [reply EXCEPT ![j] = r] /\ reply'[j] = r
              /\ r.netError <=> status >= 400
              /\ r.status = status /\ r.location = location
              /\ r.etag = NoEtag
<1>1. Nowhere \in Stored /\ Nowhere.etag = NoEtag
  BY NowhereIsStored
<1>2. PICK r \in Reply : /\ reply' = [reply EXCEPT ![j] = r] /\ reply'[j] = r
                         /\ r.netError <=> status >= 400
                         /\ r.status = status /\ r.location = location
                         /\ r.etag = Nowhere.etag /\ r.data = Nowhere.data
  BY <1>1, AnswerFields
<1>3. r.etag = NoEtag
  BY <1>1, <1>2
<1> QED BY <1>2, <1>3, Zenon

\* A request that had no effect.
LEMMA RequestRefused ==
    ASSUME IInv, NEW j \in Jobs, job[j].phase = "request", reply[j] = NoReply,
           NEW status \in Nat, NEW location \in Urls,
           Answers(j, status, location, Nowhere),
           UNCHANGED <<envVars, job, versions, wrote, removed, misled>>,
           status = 412 => refused' = refused \cup {j},
           status # 412 => refused' = refused,
           status >= 300,
           status < 400 => job[j].kind = "create" /\ status \in RedirectCodes,
           job[j].kind = "delete" => status \notin {404, 410},
           job[j].kind \in {"modify", "delete"} /\ status = 412 => Outdated(j)
    PROVE  IInv'
<1>1. PICK r \in Reply : /\ reply' = [reply EXCEPT ![j] = r] /\ reply'[j] = r
                         /\ r.netError <=> status >= 400
                         /\ r.status = status /\ r.etag = NoEtag
  BY EmptyAnswer
<1>2. /\ Unmarked(j) /\ Untouched(j) /\ wrote' = [wrote EXCEPT ![j] = NoEtag]
      /\ NoEtag \in Etag /\ NoEtag <= lastEtag /\ lastEtag' = lastEtag
      /\ job' = job /\ removed' = removed /\ wrote' = wrote
      /\ server' = server /\ misled' = misled
  BY Requested DEF envVars
<1>3. EnvTypes' /\ EnvInv' /\ Evolves
  BY NothingEvolves
<1>4. /\ Untouched(j)' /\ Outdated(j)' = Outdated(j)
      /\ j \in refused' <=> status = 412
      /\ j \notin misled'
  BY <1>2 DEF Untouched, Unmarked, Outdated
<1>5. Agrees(j)'
  BY <1>1, <1>2, <1>4 DEF Agrees, IsGone
<1>6. MarksOnly(j)
  BY <1>2 DEF MarksOnly
<1> QED BY <1>1, <1>2, <1>3, <1>5, <1>6, OneRequestAnswered, ZenonT(30)

LEMMA StepFailsPrecondition ==
    ASSUME IInv, NEW j \in Jobs, job[j].phase = "request", reply[j] = NoReply,
           FailsPrecondition(j)
    PROVE  IInv'
<1>1. /\ ~Precondition(j) /\ Answers(j, 412, Home[job[j].item.url], Nowhere)
      /\ refused' = refused \cup {j}
      /\ UNCHANGED <<envVars, job, versions, wrote, removed, misled>>
  BY DEF FailsPrecondition
<1>2. Home[job[j].item.url] \in Urls
  BY Requested
<1>3. job[j].kind \in {"modify", "delete"} => Outdated(j)
  BY <1>1, Bounds DEF Precondition, Outdated
<1> QED BY <1>1, <1>2, <1>3, RequestRefused

LEMMA StepServerPut ==
    ASSUME IInv, NEW j \in Jobs, ServerPut(j)
    PROVE  IInv'
<1>1. /\ job[j].phase = "request" /\ reply[j] = NoReply
      /\ job[j].kind \in {"create", "modify"}
  BY DEF ServerPut, IsRequest
<1> DEFINE item == job[j].item
<1>2. /\ item \in DavItem /\ item.url \in Urls /\ item.etag \in Nat
      /\ item.data \in SUBSET Edits /\ lastEtag \in Nat /\ NoEtag \in Etag
  BY <1>1, Requested DEF DavItem
<1>3. CASE FailsPrecondition(j)
  BY <1>1, <1>3, StepFailsPrecondition
<1>4. ASSUME NEW u \in Homes,
             StoresAt(u, item.data),
             Answers(j, 201, u, Nowhere),
             wrote' = [wrote EXCEPT ![j] = lastEtag + 1],
             UNCHANGED <<othersDone, job, removed, refused, misled>>
      PROVE  IInv'
  <2>7. u \in Urls /\ Home[u] = u
    BY HomeIsUrl
  <2>1. /\ EnvTypes' /\ EnvInv' /\ Evolves /\ lastEtag' = lastEtag + 1
        /\ [url |-> u, etag |-> lastEtag + 1, data |-> item.data] \in versions'
        /\ server'[u].etag = lastEtag + 1
    <3>1. othersDone' \subseteq Others
      BY <1>4 DEF IInv, TypeOK
    <3> QED BY <1>2, <1>4, <2>7, <3>1, StoresEvolves
  <2>2. PICK r \in Reply : /\ reply' = [reply EXCEPT ![j] = r] /\ reply'[j] = r
                           /\ r.netError <=> 201 >= 400
                           /\ r.status = 201 /\ r.location = u /\ r.etag = NoEtag
    <3>1. Answers(j, 201, u, Nowhere) /\ u \in Urls /\ 201 \in Nat
      BY <1>4, <2>7
    <3> QED BY <3>1, EmptyAnswer
  <2>3. lastEtag + 1 \in Etag /\ wrote'[j] = lastEtag + 1 /\ job'[j] = job[j]
    BY <1>4, <2>1 DEF IInv, TypeOK, EnvTypes
  <2>4. StoredBy(j, u)' /\ j \notin refused' /\ j \notin misled'
    BY <1>1, <1>2, <1>4, <2>1, <2>3, <2>7, Requested DEF StoredBy, Newest, Unmarked
  <2>5. Agrees(j)'
    BY <1>1, <2>2, <2>3, <2>4 DEF Agrees, IsGone, Kept
  <2>6. /\ r.etag <= lastEtag' /\ lastEtag + 1 <= lastEtag'
        /\ job' = job /\ MarksOnly(j)
    BY <1>2, <1>4, <2>1, <2>2, Bounds, NoMarks
  <2> QED BY <1>1, <1>4, <2>1, <2>2, <2>3, <2>5, <2>6, OneRequestAnswered
<1> QED BY <1>3, <1>4 DEF ServerPut

LEMMA StepServerRedirects ==
    ASSUME IInv, NEW j \in Jobs, ServerRedirects(j)
    PROVE  IInv'
<1>1. PICK u \in Urls : Answers(j, 301, u, Nowhere)
  BY DEF ServerRedirects
<1>2. /\ job[j].phase = "request" /\ reply[j] = NoReply /\ job[j].kind = "create"
      /\ UNCHANGED <<envVars, job, historyVars>> /\ 301 \in RedirectCodes
  BY DEF ServerRedirects, IsRequest, RedirectCodes
<1> QED BY <1>1, <1>2, RequestRefused DEF historyVars

LEMMA StepServerDelete ==
    ASSUME IInv, NEW j \in Jobs, ServerDelete(j)
    PROVE  IInv'
<1> DEFINE url == Home[job[j].item.url]
<1>1. /\ job[j].phase = "request" /\ reply[j] = NoReply /\ job[j].kind = "delete"
  BY DEF ServerDelete, IsRequest
<1>2. /\ url \in Urls /\ lastEtag \in Nat /\ NoEtag \in Etag /\ Unmarked(j)
      /\ NoEtag <= lastEtag /\ wrote = [wrote EXCEPT ![j] = NoEtag]
  BY <1>1, Requested
<1>3. CASE FailsPrecondition(j)
  BY <1>1, <1>3, StepFailsPrecondition
\* The item is gone, and this job knows.
<1>4. ASSUME NEW status \in {204, 404, 410},
             Answers(j, status, url, Nowhere),
             removed' = removed \cup {j},
             EnvTypes', EnvInv', Evolves,
             UNCHANGED <<lastEtag, job, wrote, refused, misled>>
      PROVE  IInv'
  <2> HIDE DEF url
  <2>1. PICK r \in Reply : /\ reply' = [reply EXCEPT ![j] = r] /\ reply'[j] = r
                           /\ r.netError <=> status >= 400
                           /\ r.status = status /\ r.etag = NoEtag
    <3>1. Answers(j, status, url, Nowhere) /\ url \in Urls /\ status \in Nat
      BY <1>2, <1>4 DEF url
    <3> QED BY <3>1, EmptyAnswer
  <2>2. /\ j \in removed' /\ job'[j] = job[j] /\ job' = job
        /\ j \notin refused' /\ j \notin misled'
        /\ wrote' = [wrote EXCEPT ![j] = NoEtag]
    BY <1>2, <1>4 DEF Unmarked
  <2>3. Agrees(j)'
    BY <1>1, <2>1, <2>2, <1>4 DEF Agrees, IsGone
  <2>4. /\ r.etag <= lastEtag' /\ NoEtag <= lastEtag'
        /\ MarksOnly(j)
    BY <1>2, <1>4, <2>1 DEF MarksOnly
  <2> QED BY <1>1, <1>2, <1>4, <2>1, <2>2, <2>3, <2>4, OneRequestAnswered, ZenonT(30)
<1>5. CASE /\ server' = [server EXCEPT ![url] = Nowhere]
           /\ removed' = removed \cup {j}
           /\ Answers(j, 204, url, Nowhere)
           /\ UNCHANGED <<lastEtag, othersDone, job,
                         versions, wrote, refused, misled>>
  <2>1. EnvTypes' /\ EnvInv' /\ Evolves
    <3>1. othersDone' \subseteq Others
      BY <1>5 DEF IInv, TypeOK
    <3> QED BY <1>2, <1>5, <3>1, RemovalEvolves
  <2> QED BY <1>4, <1>5, <2>1
<1>6. ASSUME NEW status \in {404, 410}, Answers(j, status, url, Nowhere),
             removed' = removed \cup {j},
             UNCHANGED <<envVars, job, versions, wrote, refused, misled>>
      PROVE  IInv'
  <2>1. EnvTypes' /\ EnvInv' /\ Evolves
    BY <1>6, NothingEvolves
  <2>2. lastEtag' = lastEtag
    BY <1>6 DEF envVars
  <2> QED BY <1>4, <1>6, <2>1, <2>2
<1> QED BY <1>3, <1>5, <1>6 DEF ServerDelete

LEMMA StepServerMove ==
    ASSUME IInv, NEW j \in Jobs, ServerMove(j)
    PROVE  IInv'
<1> DEFINE from == Home[job[j].item.url]
           to == Home[job[j].destination]
<1>1. /\ job[j].phase = "request" /\ reply[j] = NoReply /\ job[j].kind = "move"
  BY DEF ServerMove, IsRequest
<1>2. from \in Urls /\ to \in Urls /\ lastEtag \in Nat /\ Unmarked(j)
  BY <1>1, Requested, HomeIsUrl DEF JobState
<1>3. CASE /\ Answers(j, 404, from, Nowhere)
           /\ UNCHANGED <<envVars, job, historyVars>>
  BY <1>1, <1>2, <1>3, RequestRefused DEF historyVars
<1>4. CASE /\ from # to /\ lastEtag < MaxVersions /\ lastEtag' = lastEtag + 1
           /\ server' = [server EXCEPT
                 ![to] = [etag |-> lastEtag + 1, data |-> server[from].data],
                 ![from] = Nowhere]
           /\ versions' = versions \cup {At(to, server'[to])}
           /\ Answers(j, 201, to, Nowhere)
           /\ wrote' = [wrote EXCEPT ![j] = lastEtag + 1]
           /\ UNCHANGED <<othersDone, job, removed, refused, misled>>
  <2>1. EnvTypes' /\ EnvInv' /\ Evolves
    <3>1. othersDone' \subseteq Others
      BY <1>4 DEF IInv, TypeOK
    <3> HIDE DEF from, to
    <3> QED BY <1>2, <1>4, <3>1, MoveEvolves
  <2>2. PICK r \in Reply : /\ reply' = [reply EXCEPT ![j] = r] /\ reply'[j] = r
                           /\ r.netError <=> 201 >= 400
                           /\ r.status = 201 /\ r.etag = NoEtag
    <3>1. Answers(j, 201, to, Nowhere) /\ to \in Urls /\ 201 \in Nat
      <4>1. Answers(j, 201, to, Nowhere)
        BY <1>4
      <4>2. to \in Urls
        BY <1>2
      <4> QED BY <4>1, <4>2
    <3> HIDE DEF from, to
    <3> QED BY <3>1, EmptyAnswer
  <2>3. /\ lastEtag + 1 \in Etag /\ wrote'[j] = lastEtag + 1 /\ job'[j] = job[j]
        /\ lastEtag + 1 # NoEtag /\ j \notin refused' /\ j \notin misled'
    <3>1. lastEtag + 1 \in Etag
      BY <1>4, <2>1 DEF EnvTypes
    <3>2. wrote'[j] = lastEtag + 1
      BY <1>4 DEF IInv, TypeOK
    <3>3. lastEtag + 1 # NoEtag
      BY <1>2 DEF NoEtag
    <3>4. job'[j] = job[j] /\ j \notin refused' /\ j \notin misled'
      BY <1>2, <1>4 DEF Unmarked
    <3> QED BY <3>1, <3>2, <3>3, <3>4
  <2>4. Agrees(j)'
    BY <1>1, <2>2, <2>3 DEF Agrees, IsGone
  <2>5. /\ r.etag <= lastEtag' /\ lastEtag + 1 <= lastEtag'
        /\ job' = job /\ MarksOnly(j)
    <3>1. r.etag <= lastEtag' /\ lastEtag + 1 <= lastEtag'
      <4>1. lastEtag' = lastEtag + 1
        BY <1>4
      <4>2. r.etag = 0
        BY <2>2 DEF NoEtag
      <4> QED BY <1>2, <4>1, <4>2
    <3>2. MarksOnly(j)
      BY <1>4, NoMarks
    <3>3. job' = job
      BY <1>4
    <3> QED BY <3>1, <3>2, <3>3
  <2> QED BY <1>1, <1>4, <2>1, <2>2, <2>3, <2>4, <2>5, OneRequestAnswered
<1> QED BY <1>3, <1>4 DEF ServerMove

\* A request that became a GET: the job will take it for a success.
LEMMA StepFollowedAsGet ==
    ASSUME IInv, NEW j \in Jobs, FollowedAsGet(j)
    PROVE  IInv'
<1> DEFINE url == Home[job[j].item.url]
<1>1. /\ job[j].phase = "request" /\ reply[j] = NoReply
      /\ job[j].kind \in {"modify", "delete", "move"}
  BY DEF FollowedAsGet, IsRequest
<1>2. /\ url \in Urls /\ lastEtag \in Nat /\ NoEtag \in Etag /\ NoEtag <= lastEtag
      /\ Unmarked(j) /\ Untouched(j) /\ wrote = [wrote EXCEPT ![j] = NoEtag]
  BY <1>1, Requested
<1>3. CASE /\ Answers(j, 200, url, Nowhere)
           /\ misled' = misled \cup {j}
           /\ UNCHANGED <<envVars, job, versions, wrote, removed, refused>>
  <2>1. PICK r \in Reply : /\ reply' = [reply EXCEPT ![j] = r] /\ reply'[j] = r
                           /\ r.netError <=> 200 >= 400
                           /\ r.status = 200 /\ r.etag = NoEtag
    <3>1. Answers(j, 200, url, Nowhere) /\ url \in Urls /\ 200 \in Nat
      BY <1>2, <1>3
    <3> HIDE DEF url
    <3> QED BY <3>1, EmptyAnswer
  <2>2. /\ job' = job /\ wrote' = wrote /\ lastEtag' = lastEtag
        /\ wrote'[j] = NoEtag /\ j \in misled' /\ j \notin refused'
    BY <1>2, <1>3 DEF envVars, Unmarked, Untouched
  <2>3. Agrees(j)'
    BY <1>1, <2>1, <2>2 DEF Agrees, IsGone, Kept
  <2>4. EnvTypes' /\ EnvInv' /\ Evolves
    BY <1>3, NothingEvolves
  <2>5. MarksOnly(j) /\ r.etag <= lastEtag' /\ NoEtag <= lastEtag'
    BY <1>2, <1>3, <2>1, <2>2 DEF MarksOnly
  <2> QED BY <1>1, <1>2, <2>1, <2>2, <2>3, <2>4, <2>5, OneRequestAnswered
<1>4. CASE /\ job[j].kind = "modify" /\ Answers(j, 404, url, Nowhere)
           /\ UNCHANGED <<envVars, job, historyVars>>
  BY <1>1, <1>2, <1>4, RequestRefused DEF historyVars
<1> QED BY <1>3, <1>4 DEF FollowedAsGet

\* Nothing changes but that job j gets an answer.
LEMMA AnswerOnly ==
    ASSUME IInv, NEW j \in Jobs, NEW r \in Reply, r.etag <= lastEtag,
           job[j].phase \in {"request", "refresh", "conflict"},
           reply' = [reply EXCEPT ![j] = r],
           UNCHANGED <<envVars, job, historyVars>>,
           job[j].phase = "request" => RequestInv(j)',
           job[j].phase = "refresh" => RefreshInv(j)',
           job[j].phase = "conflict" => ConflictInv(j)'
    PROVE  IInv'
<1>1. /\ job' = job /\ lastEtag' = lastEtag /\ wrote' = wrote
      /\ UNCHANGED <<removed, refused, misled>>
      /\ wrote[j] \in Etag /\ wrote[j] <= lastEtag
  BY DEF envVars, historyVars, IInv, TypeOK, JobInv, Bounded
<1>2. wrote' = [wrote EXCEPT ![j] = wrote[j]]
  BY <1>1 DEF IInv, TypeOK
<1>3. EnvTypes' /\ EnvInv' /\ Evolves
  BY NothingEvolves DEF historyVars
<1>4. /\ r.etag <= lastEtag' /\ wrote[j] <= lastEtag'
      /\ MarksOnly(j)
  BY <1>1, NoMarks
<1> QED BY <1>1, <1>2, <1>3, <1>4, OneAnswer

\* What is said of a job before its answer, with nothing else changing.
LEMMA SameHistory ==
    ASSUME NEW j, UNCHANGED <<envVars, job, historyVars>>
    PROVE  /\ Untouched(j)' = Untouched(j) /\ Outdated(j)' = Outdated(j)
           /\ Unmarked(j)' = Unmarked(j)
           /\ Stores(j)' = Stores(j) /\ Conflicts(j)' = Conflicts(j)
           /\ \A u : StoredBy(j, u)' = StoredBy(j, u) /\ Kept(j, u)' = Kept(j, u)
           /\ \A etag, data : OtherVersion(j, etag, data)' = OtherVersion(j, etag, data)
           /\ job'[j] = job[j] /\ wrote'[j] = wrote[j] /\ versions' = versions
           /\ UNCHANGED <<removed, refused, misled>>
BY DEF envVars, historyVars, Untouched, Unmarked, Outdated, Stores, Conflicts,
       StoredBy, Kept, Newest, OtherVersion

LEMMA StepServerGet ==
    ASSUME IInv, NEW j \in Jobs, ServerGet(j)
    PROVE  IInv'
<1> DEFINE url == Home[job[j].item.url]
<1>1. /\ reply[j] = NoReply
      /\ \/ job[j].phase = "request" /\ job[j].kind = "fetch"
         \/ job[j].phase \in {"refresh", "conflict"}
      /\ UNCHANGED <<envVars, job, historyVars>>
  BY DEF ServerGet, IsRequest
<1>2. /\ job[j] \in JobState /\ job[j].item \in DavItem /\ url \in Urls
      /\ lastEtag \in Nat /\ NoEtag \in Etag /\ NoEtag = 0
      /\ server[url] \in Stored /\ server[url].etag \in Etag
      /\ server[url].etag <= lastEtag
      /\ server[url].etag # NoEtag => At(url, server[url]) \in versions
  BY Bounds, HomeIsUrl DEF IInv, TypeOK, EnvInv, JobState, DavItem, Stored
\* The answer is a version as it is now, with or without its ETag, or 404.
<1>3. PICK r \in Reply :
         /\ reply' = [reply EXCEPT ![j] = r] /\ reply'[j] = r
         /\ r.netError <=> r.status >= 400
         /\ \/ /\ r.status = 200 /\ r.etag \in {NoEtag, server[url].etag}
               /\ r.data = server[url].data /\ Present(url)
            \/ r.status = 404 /\ r.etag = NoEtag
  <2>1. CASE Answers(j, 404, url, Nowhere)
    <3>1. PICK r \in Reply :
             /\ reply' = [reply EXCEPT ![j] = r] /\ reply'[j] = r
             /\ r.netError <=> 404 >= 400
             /\ r.status = 404 /\ r.etag = NoEtag
      <4>1. url \in Urls /\ 404 \in Nat
        BY <1>2
      <4> HIDE DEF url
      <4> QED BY <4>1, <2>1, EmptyAnswer
    <3>2. r.netError <=> r.status >= 400
      BY <3>1
    <3> WITNESS r \in Reply
    <3> QED BY <3>1, <3>2
  <2>2. ASSUME NEW etag \in {server[url].etag, NoEtag},
               Answers(j, 200, url, [server[url] EXCEPT !.etag = etag]),
               Present(url)
        PROVE  \E r \in Reply :
                 /\ reply' = [reply EXCEPT ![j] = r] /\ reply'[j] = r
                 /\ r.netError <=> r.status >= 400
                 /\ r.status = 200 /\ r.etag \in {NoEtag, server[url].etag}
                 /\ r.data = server[url].data /\ Present(url)
    <3> DEFINE version == [server[url] EXCEPT !.etag = etag]
    <3>1. version \in Stored /\ version.etag = etag /\ version.data = server[url].data
      BY <1>2, <2>2 DEF Stored
    <3>2. Answers(j, 200, url, version)
      BY <2>2
    <3> HIDE DEF version
    <3>3. PICK r \in Reply :
             /\ reply' = [reply EXCEPT ![j] = r] /\ reply'[j] = r
             /\ r.netError <=> 200 >= 400
             /\ r.status = 200 /\ r.etag = version.etag /\ r.data = version.data
      <4>1. url \in Urls /\ 200 \in Nat
        BY <1>2
      <4> HIDE DEF url
      <4> QED BY <4>1, <3>1, <3>2, AnswerFields
    <3>4. r.etag \in {NoEtag, server[url].etag}
      BY <2>2, <3>1, <3>3
    <3>5. r.netError <=> r.status >= 400
      BY <3>3
    <3>6. r.data = server[url].data
      BY <3>1, <3>3
    <3>7. r.status = 200 /\ reply'[j] = r /\ reply' = [reply EXCEPT ![j] = r]
      BY <3>3
    <3> WITNESS r \in Reply
    <3> QED BY <2>2, <3>4, <3>5, <3>6, <3>7
  <2> QED BY <2>1, <2>2 DEF ServerGet
<1>4. r # NoReply /\ r.etag <= lastEtag
  BY <1>2, <1>3, NoReplyIsNone
<1>5. CASE job[j].phase = "request" /\ job[j].kind = "fetch"
  <2>1. RequestInv(j)
    BY <1>5 DEF IInv, JobInv
  <2>2. Agrees(j)'
    BY <1>1, <1>3, <1>5, <2>1, SameHistory DEF RequestInv, Agrees, IsGone, Unmarked
  <2>3. RequestInv(j)'
    BY <1>1, <1>3, <1>4, <1>5, <2>1, <2>2, SameHistory DEF RequestInv
  <2> QED BY <1>1, <1>3, <1>4, <1>5, <2>3, AnswerOnly
<1>6. CASE job[j].phase = "refresh"
  <2>1. RefreshInv(j)
    BY <1>6 DEF IInv, JobInv
  <2>2. r.etag = NoEtag \/ r.etag >= wrote[j]
    <3>1. CASE j \in misled
      <4>1. wrote[j] = NoEtag
        BY <2>1, <3>1 DEF RefreshInv, Kept
      <4>2. r.etag \in Nat
        <5> HIDE DEF url
        <5>1. r.etag \in {NoEtag, server[url].etag}
          BY <1>3
        <5> QED BY <1>2, <5>1, Bounds
      <4> QED BY <4>1, <4>2, Bounds
    <3>2. CASE j \notin misled
      <4>1. Newest(url, wrote[j])
        BY <2>1, <3>2 DEF RefreshInv, Kept, StoredBy
      <4> QED BY <1>3, <4>1 DEF Newest
    <3> QED BY <3>1, <3>2
  <2>3. RefreshInv(j)'
    BY <1>1, <1>3, <2>1, <2>2, SameHistory DEF RefreshInv
  <2> QED BY <1>1, <1>3, <1>4, <1>6, <2>3, AnswerOnly
<1>7. CASE job[j].phase = "conflict"
  <2>1. ConflictInv(j)
    BY <1>7 DEF IInv, JobInv
  <2>2. ~r.netError => r.status = 200 /\ OtherVersion(j, r.etag, r.data)
    <3> SUFFICES ASSUME ~r.netError
                 PROVE  r.status = 200 /\ OtherVersion(j, r.etag, r.data)
      OBVIOUS
    <3> DEFINE v == At(url, server[url])
    <3>1. /\ r.status = 200 /\ r.data = server[url].data
          /\ r.etag \in {NoEtag, server[url].etag} /\ v \in versions
      <4>1. r.status # 404
        BY <1>3
      <4>2. /\ r.status = 200 /\ r.etag \in {NoEtag, server[url].etag}
            /\ r.data = server[url].data /\ Present(url)
        BY <1>3, <4>1
      <4>3. v \in versions
        BY <1>2, <4>2 DEF Present
      <4> QED BY <4>2, <4>3
    <3>2. v.url = Home[job[j].item.url] /\ v.etag = server[url].etag /\ v.data = server[url].data
      BY DEF At
    <3>3. server[url].etag # job[j].item.etag
      BY <2>1 DEF ConflictInv, Outdated
    <3> HIDE DEF v, url
    <3>4. v.data = r.data /\ v.etag # job[j].item.etag /\ r.etag \in {NoEtag, v.etag}
      BY <3>1, <3>2, <3>3
    <3> QED BY <3>1, <3>2, <3>4 DEF OtherVersion
  <2>3. ConflictInv(j)'
    BY <1>1, <1>3, <2>1, <2>2, SameHistory DEF ConflictInv
  <2> QED BY <1>1, <1>3, <1>4, <1>7, <2>3, AnswerOnly
<1> QED BY <1>1, <1>5, <1>6, <1>7

LEMMA StepRequestFails ==
    ASSUME IInv, NEW j \in Jobs, RequestFails(j)
    PROVE  IInv'
<1>1. /\ reply[j] = NoReply /\ job[j].phase \in {"request", "refresh", "conflict"}
      /\ UNCHANGED <<envVars, job, historyVars>>
  BY DEF RequestFails, Waiting
<1>2. PICK status \in RefusalCodes :
         reply' = [reply EXCEPT ![j] = Answer(TRUE, status, job[j].item.url, Nowhere)]
  BY DEF RequestFails
<1>3. /\ status \in Nat /\ status \notin {404, 410, 412} /\ job[j].item.url \in Urls
  BY ItemJobsAssumption DEF IInv, TypeOK, JobState, DavItem
<1> DEFINE r == Answer(TRUE, status, job[j].item.url, Nowhere)
<1>4. reply' = [reply EXCEPT ![j] = r]
  BY <1>2
<1>5. r \in Reply /\ r.netError /\ r.status = status /\ r.etag = NoEtag
  BY <1>3, FailureIsReply, ZenonT(30)
<1> HIDE DEF r
<1>6. /\ reply'[j] = r /\ r # NoReply /\ r.netError
  BY <1>4, <1>5, NoReplyIsNone DEF IInv, TypeOK
<1>7. r.etag <= lastEtag
  BY <1>5, Bounds DEF IInv, TypeOK
<1>8. job[j].phase = "request" => RequestInv(j)'
  BY <1>1, <1>3, <1>5, <1>6, SameHistory
  DEF IInv, JobInv, RequestInv, Agrees, IsGone, Unmarked
<1>9. job[j].phase = "refresh" => RefreshInv(j)'
  BY <1>1, <1>6, SameHistory DEF IInv, JobInv, RefreshInv
<1>10. job[j].phase = "conflict" => ConflictInv(j)'
  BY <1>1, <1>6, SameHistory DEF IInv, JobInv, ConflictInv
<1> QED BY <1>1, <1>4, <1>5, <1>7, <1>8, <1>9, <1>10, AnswerOnly

LEMMA StepAnswerLost ==
    ASSUME IInv, NEW j \in Jobs, AnswerLost(j)
    PROVE  IInv'
<1>1. /\ reply[j] # NoReply /\ ~reply[j].netError
      /\ UNCHANGED <<envVars, job, historyVars>>
  BY DEF AnswerLost
<1>2. /\ reply[j] \in Reply /\ reply[j].status \in Nat
      /\ job[j].phase \in {"request", "refresh", "conflict"}
      /\ reply[j].etag <= lastEtag
  BY <1>1 DEF IInv, TypeOK, JobInv, Bounded, NewInv, DoneInv, JobState, Phase, Reply
<1>3. PICK status \in {0, reply[j].status} :
         reply' = [reply EXCEPT ![j].netError = TRUE, ![j].status = status]
  BY DEF AnswerLost
<1> DEFINE r == [reply[j] EXCEPT !.netError = TRUE, !.status = status]
<1>10. status \in Nat
  BY <1>2, <1>3
<1>4. reply' = [reply EXCEPT ![j] = r]
  BY <1>3 DEF IInv, TypeOK
<1>5. /\ r \in Reply /\ r.netError /\ r.status = status
      /\ r.etag = reply[j].etag
  BY <1>2, <1>10, LostIsReply
<1> HIDE DEF r
<1>6. /\ reply'[j] = r /\ r # NoReply /\ r.netError
  BY <1>4, <1>5, NoReplyIsNone DEF IInv, TypeOK
<1>7. job[j].phase = "request" => RequestInv(j)'
  <2> SUFFICES ASSUME job[j].phase = "request" PROVE RequestInv(j)'
    OBVIOUS
  <2>1. RequestInv(j) /\ Agrees(j)
    BY <1>1 DEF IInv, JobInv, RequestInv
  <2>2. Agrees(j)'
    BY <1>1, <1>2, <1>3, <1>5, <1>6, <2>1, SameHistory DEF Agrees, IsGone
  <2> QED BY <1>1, <1>6, <2>1, <2>2, SameHistory DEF RequestInv
<1>8. job[j].phase = "refresh" => RefreshInv(j)'
  BY <1>1, <1>6, SameHistory DEF IInv, JobInv, RefreshInv
<1>9. job[j].phase = "conflict" => ConflictInv(j)'
  BY <1>1, <1>6, SameHistory DEF IInv, JobInv, ConflictInv
<1> QED BY <1>1, <1>2, <1>4, <1>5, <1>7, <1>8, <1>9, AnswerOnly

(***************************************************************************)
(* The handlers.                                                           *)
(***************************************************************************)

LEMMA Handled ==
    ASSUME IInv, NEW j \in Jobs, NEW state \in JobState, Becomes(j, state),
           state.phase # "new", state.item.etag <= lastEtag,
           \A fresh \in state.freshItem : fresh.etag <= lastEtag,
           state.phase = "request" => RequestInv(j)',
           state.phase = "refresh" => RefreshInv(j)',
           state.phase = "conflict" => ConflictInv(j)',
           state.phase = "done" => DoneInv(j)'
    PROVE  IInv'
<1>1. /\ job' = [job EXCEPT ![j] = state] /\ reply' = [reply EXCEPT ![j] = NoReply]
      /\ lastEtag' = lastEtag /\ wrote' = wrote
      /\ UNCHANGED <<removed, refused, misled>>
  BY DEF Becomes, envVars, historyVars
<1>2. /\ job'[j] = state /\ reply'[j] = NoReply /\ wrote[j] \in Etag
      /\ wrote' = [wrote EXCEPT ![j] = wrote[j]] /\ wrote[j] <= lastEtag
  BY <1>1 DEF IInv, TypeOK, JobInv, Bounded
<1>3. Bounded(j)'
  BY <1>1, <1>2 DEF Bounded
<1>4. JobInv(j)'
  BY <1>2, <1>3 DEF JobInv
<1>5. EnvTypes' /\ EnvInv' /\ Evolves
  BY NothingEvolves DEF Becomes, historyVars
<1>6. MarksOnly(j)
  BY <1>1, NoMarks
<1> QED BY <1>1, <1>2, <1>4, <1>5, <1>6, OneJob

\* What is said of a job after its handler, in terms of the job before.
LEMMA AfterHandler ==
    ASSUME IInv, NEW j \in Jobs, NEW state, Becomes(j, state)
    PROVE  /\ job'[j] = state /\ reply'[j] = NoReply
           /\ wrote'[j] = wrote[j] /\ versions' = versions /\ server' = server
           /\ UNCHANGED <<removed, refused, misled>>
           /\ Untouched(j)' = Untouched(j) /\ Unmarked(j)' = Unmarked(j)
BY DEF Becomes, envVars, historyVars, IInv, TypeOK, Untouched, Unmarked

\* What is known of a job whose answer is there.
LEMMA Answered ==
    ASSUME IInv, NEW j \in Jobs, reply[j] # NoReply
    PROVE  /\ job[j] \in JobState /\ reply[j] \in Reply
           /\ job[j].item \in DavItem /\ job[j].item.etag <= lastEtag
           /\ reply[j].status \in Nat /\ reply[j].location \in Urls
           /\ reply[j].etag \in Etag /\ reply[j].etag <= lastEtag
           /\ reply[j].data \in SUBSET Edits /\ wrote[j] \in Nat
           /\ job[j].phase = "request" => RequestInv(j) /\ Agrees(j)
           /\ job[j].phase = "refresh" => RefreshInv(j)
           /\ job[j].phase = "conflict" => ConflictInv(j)
<1>1. /\ job[j] \in JobState /\ reply[j] \in Reply /\ JobInv(j) /\ wrote[j] \in Nat
  BY Bounds DEF IInv, TypeOK
<1>2. job[j].item \in DavItem
  BY <1>1 DEF JobState
<1>3. /\ reply[j].status \in Nat /\ reply[j].location \in Urls
      /\ reply[j].etag \in Etag /\ reply[j].data \in SUBSET Edits
  BY <1>1 DEF Reply
<1> QED BY <1>1, <1>2, <1>3 DEF JobInv, Bounded, RequestInv

LEMMA FailsState ==
    ASSUME NEW state \in JobState, NEW status \in Nat,
           NEW error \in Failures
    PROVE  LET failed == Fails(state, error, status)
           IN  /\ failed \in JobState /\ failed.phase = "done"
               /\ failed.error # NO_ERR /\ failed.latestResponseCode = status
               /\ failed.kind = state.kind /\ failed.item = state.item
               /\ failed.freshItem = state.freshItem
<1>1. error \in ErrorNumber \cup {"UserDefinedError"} /\ error # NO_ERR
  BY ErrorNumbers DEF Failures
<1> QED BY <1>1 DEF Fails, JobState, Phase

\* A request that failed for good.
LEMMA HandlerFails ==
    ASSUME IInv, NEW j \in Jobs, job[j].phase = "request", reply[j] # NoReply,
           NEW error \in Failures,
           Becomes(j, Fails(job[j], error, reply[j].status)), ~IsGone(j)
    PROVE  IInv'
<1> DEFINE state == Fails(job[j], error, reply[j].status)
<1>1. /\ state \in JobState /\ state.phase = "done"
      /\ state.error # NO_ERR /\ state.latestResponseCode = reply[j].status
      /\ state.item = job[j].item /\ state.freshItem = job[j].freshItem
  <2>1. job[j] \in JobState /\ reply[j].status \in Nat
    BY Answered
  <2> QED BY <2>1, FailsState
<1>2. Becomes(j, state)
  OBVIOUS
<1> HIDE DEF state
<1>3. /\ RequestInv(j) /\ Agrees(j) /\ state.freshItem = {}
      /\ state.item.etag <= lastEtag
  BY <1>1, Answered DEF RequestInv
<1>4. DoneInv(j)'
  BY <1>1, <1>2, <1>3, AfterHandler
  DEF DoneInv, Agrees, HandsOutOther, Conflicts, HasConflict
<1> QED BY <1>1, <1>2, <1>3, <1>4, Handled

\* A request refused because the item has changed: the other version is
\* fetched.
LEMMA HandlerConflicts ==
    ASSUME IInv, NEW j \in Jobs, job[j].phase = "request", reply[j] # NoReply,
           job[j].kind \in {"modify", "delete"}, reply[j].status = 412,
           NEW error \in Failures,
           Becomes(j, [Fails(job[j], error, reply[j].status) EXCEPT !.phase = "conflict"])
    PROVE  IInv'
<1> DEFINE failed == Fails(job[j], error, reply[j].status)
           state == [failed EXCEPT !.phase = "conflict"]
<1>1. /\ failed \in JobState /\ failed.error # NO_ERR
      /\ failed.latestResponseCode = reply[j].status /\ failed.kind = job[j].kind
      /\ failed.item = job[j].item /\ failed.freshItem = job[j].freshItem
  <2>1. job[j] \in JobState /\ reply[j].status \in Nat
    BY Answered
  <2> QED BY <2>1, FailsState
<1>2. Becomes(j, state)
  OBVIOUS
<1> HIDE DEF failed
<1>3. /\ state \in JobState /\ state.phase = "conflict" /\ state.error # NO_ERR
      /\ state.latestResponseCode = 412 /\ state.kind = job[j].kind
      /\ state.item = job[j].item /\ state.freshItem = job[j].freshItem
  BY <1>1 DEF JobState, Phase
<1> HIDE DEF state
<1>4. /\ RequestInv(j) /\ Agrees(j) /\ state.freshItem = {}
      /\ state.item.etag <= lastEtag
  BY <1>3, Answered DEF RequestInv
<1>5. Untouched(j) /\ Outdated(j) /\ j \in refused
  BY <1>4 DEF Agrees, IsGone
<1>6. ConflictInv(j)'
  <2>1. Outdated(j)' /\ Untouched(j)' /\ Conflicts(j)'
    BY <1>2, <1>3, <1>5, AfterHandler DEF Outdated, Conflicts, HasConflict
  <2> QED BY <1>2, <1>3, <1>4, <1>5, <2>1, AfterHandler DEF ConflictInv
<1> QED BY <1>2, <1>3, <1>4, <1>6, Handled

\* A stored item is fetched from where it was stored.
LEMMA HandlerStored ==
    ASSUME IInv, NEW j \in Jobs, job[j].phase = "request", reply[j] # NoReply,
           Stores(j), Kept(j, reply[j].location), j \notin refused,
           Becomes(j, StoredAt(job[j], reply[j].location))
    PROVE  IInv'
<1> DEFINE state == StoredAt(job[j], reply[j].location)
<1>1. /\ job[j] \in JobState /\ job[j].item \in DavItem /\ reply[j].location \in Urls
      /\ job[j].item.etag <= lastEtag /\ RequestInv(j)
  BY Answered
<1> DEFINE item == [job[j].item EXCEPT !.url = reply[j].location]
<1>2. /\ item \in DavItem /\ item.url = reply[j].location
      /\ item.etag = job[j].item.etag /\ item.data = job[j].item.data
  BY <1>1 DEF DavItem
<1>3. state = [job[j] EXCEPT !.item = item, !.phase = "refresh"]
  BY <1>1 DEF StoredAt, JobState
<1>4. Becomes(j, state)
  OBVIOUS
<1> HIDE DEF item, state
<1>5. /\ state \in JobState /\ state.phase = "refresh" /\ state.item = item
      /\ state.error = job[j].error /\ state.kind = job[j].kind
      /\ state.freshItem = job[j].freshItem
  BY <1>1, <1>2, <1>3 DEF JobState, Phase
<1>6. RefreshInv(j)'
  <2>1. /\ job'[j] = state /\ reply'[j] = NoReply /\ wrote'[j] = wrote[j]
        /\ versions' = versions /\ server' = server
        /\ UNCHANGED <<refused, misled>>
    BY <1>4, AfterHandler
  <2>2. item.url = reply[j].location /\ item.data = job[j].item.data
    BY <1>2
  <2>3. Kept(j, job[j].item.url)'
    <3>1. /\ j \notin misled =>
              /\ [url |-> item.url, etag |-> wrote[j], data |-> item.data] \in versions
              /\ Newest(Home[item.url], wrote[j])
          /\ j \in misled => wrote[j] = NoEtag
      BY <2>2 DEF Kept, StoredBy
    <3> QED BY <1>5, <2>1, <3>1 DEF Kept, StoredBy, Newest
  <2>4. Stores(j)'
    BY <1>5, <2>1 DEF Stores
  <2> QED BY <1>1, <1>5, <2>1, <2>3, <2>4 DEF RefreshInv, RequestInv
<1>7. /\ state.item.etag <= lastEtag
      /\ \A fresh \in state.freshItem : fresh.etag <= lastEtag
  BY <1>1, <1>2, <1>5 DEF RequestInv
<1> QED BY <1>4, <1>5, <1>6, <1>7, Handled

\* A redirected create starts again elsewhere.
LEMMA HandlerRedirected ==
    ASSUME IInv, NEW j \in Jobs, job[j].phase = "request", reply[j] # NoReply,
           job[j].kind = "create", reply[j].status \in RedirectCodes,
           Becomes(j, RedirectedTo(job[j], reply[j].location))
    PROVE  IInv'
<1> DEFINE state == RedirectedTo(job[j], reply[j].location)
<1>1. /\ job[j] \in JobState /\ job[j].item \in DavItem /\ reply[j].location \in Urls
      /\ job[j].item.etag <= lastEtag /\ RequestInv(j) /\ Agrees(j)
  BY Answered
<1> DEFINE item == [job[j].item EXCEPT !.url = reply[j].location]
<1>2. item \in DavItem /\ item.etag = job[j].item.etag
  BY <1>1 DEF DavItem
<1>3. state = [job[j] EXCEPT !.item = item, !.redirectCount = @ + 1]
  BY <1>1 DEF RedirectedTo, JobState
<1>4. Becomes(j, state)
  OBVIOUS
<1> HIDE DEF item, state
<1>5. /\ state \in JobState /\ state.phase = "request" /\ state.item = item
      /\ state.error = job[j].error /\ state.kind = "create"
      /\ state.freshItem = job[j].freshItem
  <2>1. job[j].redirectCount + 1 \in Nat
    BY <1>1 DEF JobState
  <2> QED BY <1>1, <1>2, <1>3, <2>1 DEF JobState
<1>6. Unmarked(j)
  BY <1>1 DEF Agrees, IsGone, RedirectCodes, Unmarked
<1>7. RequestInv(j)'
  BY <1>1, <1>4, <1>5, <1>6, AfterHandler DEF RequestInv
<1>8. /\ state.item.etag <= lastEtag
      /\ \A fresh \in state.freshItem : fresh.etag <= lastEtag
  BY <1>1, <1>2, <1>5 DEF RequestInv
<1> QED BY <1>4, <1>5, <1>7, <1>8, Handled

LEMMA StepCreateFinished ==
    ASSUME IInv, NEW j \in Jobs, CreateFinished(j)
    PROVE  IInv'
<1>1. /\ job[j].phase = "request" /\ reply[j] # NoReply /\ job[j].kind = "create"
      /\ Stores(j) /\ ~IsGone(j)
  BY DEF CreateFinished, HasAnswer, Stores, IsGone
<1>2. CASE reply[j].netError
  <2>1. Becomes(j, Fails(job[j], "ERR_ITEMCREATE", reply[j].status))
    BY <1>2 DEF CreateFinished
  <2> QED BY <1>1, <2>1, HandlerFails DEF Failures
<1>3. CASE ~reply[j].netError /\ reply[j].status \notin RedirectCodes
  <2>1. Becomes(j, StoredAt(job[j], reply[j].location))
    BY <1>3 DEF CreateFinished
  <2>2. Kept(j, reply[j].location) /\ j \notin refused
    BY <1>1, <1>3, Answered DEF Agrees, Kept
  <2> QED BY <1>1, <2>1, <2>2, HandlerStored
<1>4. CASE ~reply[j].netError /\ reply[j].status \in RedirectCodes
  <2>1. \/ Becomes(j, Fails(job[j], "UserDefinedError", reply[j].status))
        \/ Becomes(j, RedirectedTo(job[j], reply[j].location))
    BY <1>4 DEF CreateFinished
  <2> QED BY <1>1, <1>4, <2>1, HandlerFails, HandlerRedirected DEF Failures
<1> QED BY <1>2, <1>3, <1>4

LEMMA StepModifyFinished ==
    ASSUME IInv, NEW j \in Jobs, ModifyFinished(j)
    PROVE  IInv'
<1>1. /\ job[j].phase = "request" /\ reply[j] # NoReply /\ job[j].kind = "modify"
      /\ Stores(j) /\ ~IsGone(j)
  BY DEF ModifyFinished, HasAnswer, Stores, IsGone
<1>2. CASE ~reply[j].netError
  <2>1. Becomes(j, StoredAt(job[j], reply[j].location))
    BY <1>2 DEF ModifyFinished
  <2>2. Kept(j, reply[j].location) /\ j \notin refused
    BY <1>1, <1>2, Answered DEF Agrees
  <2> QED BY <1>1, <2>1, <2>2, HandlerStored
<1>3. CASE reply[j].netError /\ reply[j].status = 412
  <2>1. Becomes(j, [Fails(job[j], "ERR_ITEMMODIFY", reply[j].status)
                      EXCEPT !.phase = "conflict"])
    BY <1>3 DEF ModifyFinished, HasConflict
  <2> QED BY <1>1, <1>3, <2>1, HandlerConflicts DEF Failures
<1>4. CASE reply[j].netError /\ reply[j].status # 412
  <2>1. Becomes(j, Fails(job[j], "ERR_ITEMMODIFY", reply[j].status))
    BY <1>4 DEF ModifyFinished, HasConflict
  <2> QED BY <1>1, <2>1, HandlerFails DEF Failures
<1> QED BY <1>2, <1>3, <1>4

\* A job that did what it was asked and is over.
LEMMA HandlerEnds ==
    ASSUME IInv, NEW j \in Jobs, job[j].phase = "request", reply[j] # NoReply,
           ~Stores(j), j \notin refused,
           job[j].kind = "move" => j \in misled \/ wrote[j] # NoEtag,
           job[j].kind = "delete" => j \in misled \/ j \in removed,
           NEW code \in Nat, NEW item \in DavItem, item.etag <= lastEtag,
           Becomes(j, [job[j] EXCEPT !.phase = "done",
                                     !.latestResponseCode = code, !.item = item])
    PROVE  IInv'
<1> DEFINE state == [job[j] EXCEPT !.phase = "done",
                                   !.latestResponseCode = code, !.item = item]
<1>1. job[j] \in JobState /\ RequestInv(j)
  BY Answered
<1>2. Becomes(j, state)
  OBVIOUS
<1>3. /\ state \in JobState /\ state.phase = "done" /\ state.item = item
      /\ state.error = job[j].error /\ state.freshItem = job[j].freshItem
      /\ state.kind = job[j].kind
  BY <1>1 DEF JobState, Phase
<1> HIDE DEF state
<1>4. state.error = NO_ERR /\ state.freshItem = {}
  BY <1>1, <1>3 DEF RequestInv
<1>5. ~Stores(j)' /\ state.kind # "modify"
  BY <1>2, <1>3, AfterHandler DEF Stores
<1>6. DoneInv(j)'
  BY <1>2, <1>3, <1>4, <1>5, AfterHandler DEF DoneInv, HandsOutOther
<1> QED BY <1>2, <1>3, <1>4, <1>6, Handled

\* The same when neither the code nor the item changes.
LEMMA HandlerEndsAsItWas ==
    ASSUME IInv, NEW j \in Jobs, job[j].phase = "request", reply[j] # NoReply,
           ~Stores(j), j \notin refused,
           job[j].kind = "move" => j \in misled \/ wrote[j] # NoEtag,
           job[j].kind = "delete" => j \in misled \/ j \in removed,
           Becomes(j, [job[j] EXCEPT !.phase = "done"])
    PROVE  IInv'
<1>1. /\ job[j] \in JobState /\ job[j].item \in DavItem
      /\ job[j].item.etag <= lastEtag /\ job[j].latestResponseCode \in Nat
  BY Answered DEF JobState
<1>2. [job[j] EXCEPT !.phase = "done"] =
        [job[j] EXCEPT !.phase = "done",
                       !.latestResponseCode = job[j].latestResponseCode,
                       !.item = job[j].item]
  BY <1>1 DEF JobState
<1> QED BY <1>1, <1>2, HandlerEnds

LEMMA StepDeleteFinished ==
    ASSUME IInv, NEW j \in Jobs, DeleteFinished(j)
    PROVE  IInv'
<1>1. /\ job[j].phase = "request" /\ reply[j] # NoReply /\ job[j].kind = "delete"
      /\ ~Stores(j)
  BY DEF DeleteFinished, HasAnswer, Stores
<1>2. CASE ~reply[j].netError \/ reply[j].status \in {404, 410}
  <2>1. Becomes(j, [job[j] EXCEPT !.phase = "done"])
    BY <1>2 DEF DeleteFinished
  <2>2. (j \in misled \/ j \in removed) /\ j \notin refused
    BY <1>1, <1>2, Answered DEF Agrees, IsGone
  <2> QED BY <1>1, <2>1, <2>2, HandlerEndsAsItWas
<1>3. CASE ~(~reply[j].netError \/ reply[j].status \in {404, 410})
  <2>1. ~IsGone(j)
    BY <1>3 DEF IsGone
  <2>2. CASE reply[j].status = 412
    <3>1. Becomes(j, [Fails(job[j], "ERR_ITEMDELETE", reply[j].status)
                        EXCEPT !.phase = "conflict"])
      BY <1>3, <2>2 DEF DeleteFinished, HasConflict
    <3> QED BY <1>1, <2>2, <3>1, HandlerConflicts DEF Failures
  <2>3. CASE reply[j].status # 412
    <3>1. Becomes(j, Fails(job[j], "ERR_ITEMDELETE", reply[j].status))
      BY <1>3, <2>3 DEF DeleteFinished, HasConflict
    <3> QED BY <1>1, <2>1, <3>1, HandlerFails DEF Failures
  <2> QED BY <2>2, <2>3
<1> QED BY <1>2, <1>3

LEMMA StepMoveFinished ==
    ASSUME IInv, NEW j \in Jobs, MoveFinished(j)
    PROVE  IInv'
<1>1. /\ job[j].phase = "request" /\ reply[j] # NoReply /\ job[j].kind = "move"
      /\ ~Stores(j) /\ ~IsGone(j)
  BY DEF MoveFinished, HasAnswer, Stores, IsGone
<1>2. CASE reply[j].netError
  <2>1. Becomes(j, Fails(job[j], "ERR_ITEMMOVE", reply[j].status))
    BY <1>2 DEF MoveFinished
  <2> QED BY <1>1, <2>1, HandlerFails DEF Failures
<1>3. CASE ~reply[j].netError
  <2>1. Becomes(j, [job[j] EXCEPT !.phase = "done"])
    BY <1>3 DEF MoveFinished
  <2>2. (j \in misled \/ wrote[j] # NoEtag) /\ j \notin refused
    BY <1>1, <1>3, Answered DEF Agrees
  <2> QED BY <1>1, <2>1, <2>2, HandlerEndsAsItWas
<1> QED BY <1>2, <1>3

LEMMA StepFetchFinished ==
    ASSUME IInv, NEW j \in Jobs, FetchFinished(j)
    PROVE  IInv'
<1>1. /\ job[j].phase = "request" /\ reply[j] # NoReply /\ job[j].kind = "fetch"
      /\ ~Stores(j) /\ ~IsGone(j)
  BY DEF FetchFinished, HasAnswer, Stores, IsGone
<1>2. CASE reply[j].netError
  <2>1. Becomes(j, Fails(job[j], "ERR_PROBLEM_WITH_REQUEST", reply[j].status))
    BY <1>2 DEF FetchFinished
  <2> QED BY <1>1, <2>1, HandlerFails DEF Failures
<1>3. CASE ~reply[j].netError
  <2> DEFINE item == FetchedItem(job[j].item, reply[j])
  <2>1. Becomes(j, [job[j] EXCEPT !.phase = "done",
                                  !.latestResponseCode = reply[j].status,
                                  !.item = item])
    BY <1>3 DEF FetchFinished
  <2>2. /\ item \in DavItem /\ item.etag <= lastEtag /\ reply[j].status \in Nat
        /\ j \notin refused
    BY <1>1, <1>3, Answered, FetchedItemIsItem DEF Agrees
  <2> HIDE DEF item
  <2> QED BY <1>1, <2>1, <2>2, HandlerEnds
<1> QED BY <1>2, <1>3

LEMMA StepItemRefreshed ==
    ASSUME IInv, NEW j \in Jobs, ItemRefreshed(j)
    PROVE  IInv'
<1>1. /\ job[j].phase = "refresh" /\ reply[j] # NoReply
      /\ Becomes(j, [job[j] EXCEPT !.phase = "done",
                                   !.item.etag = RefreshedEtag(j, reply[j])])
  BY DEF ItemRefreshed
<1>2. /\ job[j] \in JobState /\ job[j].item \in DavItem /\ job[j].item.etag <= lastEtag
      /\ reply[j].etag \in Etag /\ reply[j].etag <= lastEtag /\ wrote[j] \in Nat
      /\ RefreshInv(j) /\ lastEtag \in Nat
  BY <1>1, Answered, Bounds DEF IInv, TypeOK
<1> DEFINE etag == RefreshedEtag(j, reply[j])
           item == [job[j].item EXCEPT !.etag = etag]
           state == [job[j] EXCEPT !.phase = "done", !.item = item]
<1>3. Becomes(j, state)
  BY <1>1, <1>2 DEF JobState
<1>4. /\ etag \in Etag /\ etag <= lastEtag
      /\ job[j].kind = "modify" => etag = NoEtag \/ etag >= wrote[j]
  BY <1>1, <1>2, Bounds DEF RefreshedEtag, RefreshInv, DavItem
<1> HIDE DEF etag
<1>5. /\ item \in DavItem /\ item.etag = etag
      /\ [item EXCEPT !.etag = wrote[j]] =
            [url |-> job[j].item.url, etag |-> wrote[j], data |-> job[j].item.data]
  <2>1. /\ item \in DavItem /\ item.etag = etag
        /\ item.url = job[j].item.url /\ item.data = job[j].item.data
    BY <1>2, <1>4 DEF DavItem
  <2> HIDE DEF item
  <2>2. item = [url |-> item.url, etag |-> item.etag, data |-> item.data]
    BY <2>1 DEF DavItem
  <2> QED BY <2>1, <2>2
<1> HIDE DEF item
<1>6. /\ state \in JobState /\ state.phase = "done" /\ state.item = item
      /\ state.error = job[j].error /\ state.kind = job[j].kind
      /\ state.freshItem = job[j].freshItem
  BY <1>2, <1>5 DEF JobState, Phase
<1> HIDE DEF state
<1>7. /\ state.error = NO_ERR /\ state.freshItem = {} /\ state.kind \in {"create", "modify"}
      /\ j \notin misled => [item EXCEPT !.etag = wrote[j]] \in versions
      /\ j \notin refused
  BY <1>2, <1>5, <1>6 DEF RefreshInv, Kept, StoredBy, Stores
<1>8. DoneInv(j)'
  <2>1. /\ job'[j] = state /\ reply'[j] = NoReply /\ wrote'[j] = wrote[j]
        /\ versions' = versions /\ UNCHANGED <<refused, misled>>
    BY <1>3, AfterHandler
  <2> QED BY <1>4, <1>5, <1>6, <1>7, <2>1 DEF DoneInv, HandsOutOther
<1> QED BY <1>3, <1>4, <1>5, <1>6, <1>7, <1>8, Handled

LEMMA StepConflictingItemFetched ==
    ASSUME IInv, NEW j \in Jobs, ConflictingItemFetched(j)
    PROVE  IInv'
<1> DEFINE fetched == FetchedItem(job[j].item, reply[j])
           fresh == IF reply[j].netError THEN {} ELSE {fetched}
           state == [job[j] EXCEPT !.phase = "done",
                                   !.freshResponseCode = reply[j].status,
                                   !.freshItem = fresh]
<1>1. /\ job[j].phase = "conflict" /\ reply[j] # NoReply /\ Becomes(j, state)
  BY DEF ConflictingItemFetched
<1>2. /\ job[j] \in JobState /\ reply[j] \in Reply /\ job[j].item \in DavItem
      /\ job[j].item.etag <= lastEtag /\ reply[j].etag <= lastEtag
      /\ reply[j].status \in Nat /\ ConflictInv(j)
  BY <1>1, Answered
<1>3. /\ fetched \in DavItem
      /\ fetched = [url |-> job[j].item.url, etag |-> reply[j].etag,
                    data |-> reply[j].data]
      /\ fetched.url = job[j].item.url /\ fetched.etag = reply[j].etag
  BY <1>2, FetchedItemIsItem
<1> HIDE DEF fetched
<1>4. /\ fresh \in SUBSET DavItem /\ \A f \in fresh : f = fetched /\ ~reply[j].netError
  BY <1>3
<1> HIDE DEF fresh
<1>5. /\ state \in JobState /\ state.phase = "done" /\ state.item = job[j].item
      /\ state.error = job[j].error /\ state.kind = job[j].kind
      /\ state.latestResponseCode = job[j].latestResponseCode
      /\ state.freshResponseCode = reply[j].status /\ state.freshItem = fresh
  <2>1. state \in JobState
    <3>1. /\ reply[j].status \in Int /\ "done" \in Phase
          /\ job[j] \in JobState /\ fresh \in SUBSET DavItem
      BY <1>2, <1>4 DEF Phase
    <3> DEFINE code == reply[j].status
    <3> HIDE DEF code
    <3>2. [job[j] EXCEPT !.phase = "done", !.freshResponseCode = code,
                         !.freshItem = fresh] \in JobState
      BY <3>1 DEF JobState, code
    <3> QED BY <3>2 DEF code
  <2> QED BY <1>2, <2>1 DEF JobState
<1> HIDE DEF state
<1>6. /\ job'[j] = state /\ reply'[j] = NoReply /\ wrote'[j] = wrote[j]
      /\ versions' = versions /\ Untouched(j)' = Untouched(j)
      /\ refused' = refused
  BY <1>1, AfterHandler
<1>7. Conflicts(j)' /\ state.error # NO_ERR /\ j \in refused'
  BY <1>2, <1>5, <1>6 DEF ConflictInv, Conflicts
<1>8. HandsOutOther(j)'
  <2> SUFFICES ASSUME NEW f \in fresh
               PROVE  /\ state.freshResponseCode \in 200 .. 299
                      /\ f.url = state.item.url
                      /\ OtherVersion(j, f.etag, f.data)'
    BY <1>5, <1>6, <1>7 DEF HandsOutOther
  <2>1. f = fetched /\ ~reply[j].netError
    BY <1>4
  <2>2. reply[j].status = 200 /\ OtherVersion(j, reply[j].etag, reply[j].data)
    BY <1>1, <1>2, <2>1 DEF ConflictInv
  <2>3. /\ f.url = job[j].item.url /\ f.etag = reply[j].etag
        /\ f.data = reply[j].data
    BY <1>3, <2>1
  <2>4. OtherVersion(j, f.etag, f.data)'
    BY <1>5, <1>6, <2>2, <2>3 DEF OtherVersion
  <2> QED BY <1>5, <2>2, <2>3, <2>4
<1>9. DoneInv(j)'
  BY <1>2, <1>5, <1>6, <1>8, <1>7 DEF DoneInv, ConflictInv
<1>10. \A f \in state.freshItem : f.etag <= lastEtag
  BY <1>2, <1>3, <1>4, <1>5
<1> QED BY <1>1, <1>2, <1>5, <1>9, <1>10, Handled

LEMMA StepIInv == IInv /\ [Next]_vars => IInv'
<1> SUFFICES ASSUME IInv, [Next]_vars PROVE IInv'
  OBVIOUS
<1>1. CASE UNCHANGED vars
  <2>1. /\ UNCHANGED <<envVars, versions>>
        /\ UNCHANGED <<job, reply, wrote, removed, refused, misled>>
    BY <1>1 DEF vars, historyVars
  <2> QED BY <2>1, NothingEvolves, NoJob
<1>2. ASSUME NEW j \in Jobs, Starts(j) PROVE IInv'
  BY <1>2, StepStart
<1>3. ASSUME NEW j \in Jobs, ServerStep(j) PROVE IInv'
  BY <1>3, StepServerPut, StepServerRedirects, StepServerDelete, StepServerMove,
     StepServerGet, StepFollowedAsGet, StepRequestFails DEF ServerStep
<1>4. ASSUME NEW j \in Jobs, AnswerLost(j) PROVE IInv'
  BY <1>4, StepAnswerLost
<1>5. ASSUME NEW j \in Jobs, Handler(j) PROVE IInv'
  BY <1>5, StepCreateFinished, StepModifyFinished, StepDeleteFinished,
     StepMoveFinished, StepFetchFinished, StepItemRefreshed,
     StepConflictingItemFetched DEF Handler
<1>6. ASSUME NEW o \in Others, OtherClient(o) PROVE IInv'
  BY <1>6, StepOtherClient
<1> QED BY <1>1, <1>2, <1>3, <1>4, <1>5, <1>6 DEF Next, Quiescent

(***************************************************************************)
(* A job as OneEffect sees it.  A fetch ends well without an effect, so it *)
(* matters that it never has one.                                          *)
(***************************************************************************)

KindInv(j) ==
    /\ job[j].phase # "new" => job[j].kind # "none"
    /\ job[j].kind = "fetch" => Untouched(j)

EInv == IInv /\ \A j \in Jobs : KindInv(j)

OneEffectStep(j) == OE(j)!Next \/ UNCHANGED OE(j)!vars

\* Nothing changes of what job j did or, once it is done, of its outcome.
SameEffect(j) ==
    /\ wrote'[j] = wrote[j] /\ (j \in removed' <=> j \in removed)
    /\ Done(j) => (j \in misled' <=> j \in misled)

LEMMA InitEInv == Init => EInv /\ \A j \in Jobs : OE(j)!Init
<1> SUFFICES ASSUME Init PROVE EInv /\ \A j \in Jobs : OE(j)!Init OBVIOUS
<1>1. IInv
  BY InitIInv
<1>2. ASSUME NEW j \in Jobs PROVE KindInv(j) /\ OE(j)!Init
  <2>1. job[j].phase = "new" /\ job[j].kind = "none"
    BY DEF Init
  <2>2. wrote[j] = NoEtag /\ (j \in removed) = FALSE
    BY DEF Init
  <2> QED BY <2>1, <2>2 DEF KindInv, OE!Init, Outcome, Done, Waiting
<1> QED BY <1>1, <1>2 DEF EInv

\* What the actions do that OneEffect sees.
LEMMA StartEffect ==
    ASSUME IInv, NEW j \in Jobs, Starts(j)
    PROVE  /\ wrote' = wrote /\ removed' = removed /\ misled' = misled
           /\ \A k \in Jobs \ {j} : job'[k] = job[k]
           /\ job[j].phase = "new" /\ job'[j].phase = "request"
           /\ job'[j].kind # "none" /\ Untouched(j)
<1>1. /\ job[j].phase = "new" /\ job \in [Jobs -> JobState] /\ job[j] \in JobState
      /\ Untouched(j)
  BY DEF IInv, TypeOK, JobInv, NewInv, Unmarked, Starts, StartCreate, StartModify,
         StartDelete, StartMove, StartFetch, IsNew
<1>2. ASSUME NEW kind, NEW item, NEW u, NEW code, StartWith(j, kind, item, u, code),
             kind # "none"
      PROVE  /\ wrote' = wrote /\ removed' = removed /\ misled' = misled
             /\ \A k \in Jobs \ {j} : job'[k] = job[k]
             /\ job'[j].phase = "request" /\ job'[j].kind # "none"
  <2> DEFINE state == [job[j] EXCEPT !.kind = kind, !.phase = "request",
                                     !.item = item, !.destination = u,
                                     !.freshResponseCode = code]
  <2>1. /\ job' = [job EXCEPT ![j] = state] /\ wrote' = wrote /\ removed' = removed /\ misled' = misled
    BY <1>2 DEF StartWith, historyVars
  <2>2. state.phase = "request" /\ state.kind = kind
    BY <1>1 DEF JobState
  <2> HIDE DEF state
  <2> QED BY <1>1, <1>2, <2>1, <2>2
<1>3. PICK kind \in {"create", "modify", "delete", "move", "fetch"} :
          \E item, u, code : StartWith(j, kind, item, u, code)
  BY DEF Starts, StartCreate, StartModify, StartDelete, StartMove, StartFetch
<1> QED BY <1>1, <1>2, <1>3

\* A request is in flight that may still take effect.
HasRequest(j) ==
    job[j].phase = "request" /\ job[j].kind # "fetch" /\ Untouched(j)

LEMMA ServerEffect ==
    ASSUME IInv, NEW j \in Jobs, ServerStep(j)
    PROVE  /\ job' = job /\ \A k \in Jobs \ {j} : SameEffect(k)
           /\ SameEffect(j) \/ HasRequest(j)
<1>1. CASE ServerRedirects(j) \/ ServerGet(j) \/ RequestFails(j)
  BY <1>1 DEF ServerRedirects, ServerGet, RequestFails, historyVars, SameEffect
<1>2. CASE FollowedAsGet(j)
  <2>1. /\ job' = job /\ wrote' = wrote /\ removed' = removed /\ ~Done(j)
        /\ misled' \in {misled, misled \cup {j}}
    BY <1>2 DEF FollowedAsGet, IsRequest, Done, historyVars
  <2> QED BY <2>1 DEF SameEffect
<1>3. ASSUME NEW kinds, "fetch" \notin kinds, IsRequest(j, kinds)
      PROVE  HasRequest(j)
  BY <1>3, Requested DEF IsRequest, HasRequest
<1>4. CASE ServerPut(j)
  <2>1. /\ job' = job /\ removed' = removed /\ misled' = misled
        /\ \A k \in Jobs \ {j} : wrote'[k] = wrote[k]
    BY <1>4 DEF ServerPut, FailsPrecondition, IInv, TypeOK
  <2>2. IsRequest(j, {"create", "modify"})
    BY <1>4 DEF ServerPut
  <2> QED BY <1>3, <2>1, <2>2 DEF SameEffect
<1>5. CASE ServerDelete(j)
  <2>1. /\ job' = job /\ wrote' = wrote /\ misled' = misled
        /\ removed' \in {removed, removed \cup {j}}
    BY <1>5 DEF ServerDelete, FailsPrecondition
  <2>2. IsRequest(j, {"delete"})
    BY <1>5 DEF ServerDelete
  <2> QED BY <1>3, <2>1, <2>2 DEF SameEffect
<1>6. CASE ServerMove(j)
  <2>1. /\ job' = job /\ removed' = removed /\ misled' = misled
        /\ \A k \in Jobs \ {j} : wrote'[k] = wrote[k]
    BY <1>6 DEF ServerMove, historyVars, IInv, TypeOK
  <2>2. IsRequest(j, {"move"})
    BY <1>6 DEF ServerMove
  <2> QED BY <1>3, <2>1, <2>2 DEF SameEffect
<1> QED BY <1>1, <1>4, <1>5, <1>6, <1>2 DEF ServerStep

LEMMA HandlerEffect ==
    ASSUME IInv, NEW j \in Jobs, Handler(j)
    PROVE  /\ wrote' = wrote /\ removed' = removed /\ misled' = misled
           /\ \A k \in Jobs \ {j} : job'[k] = job[k]
           /\ Waiting(j) /\ job'[j].kind = job[j].kind
           /\ job'[j].phase \in {"request", "refresh", "conflict", "done"}
<1>1. /\ job \in [Jobs -> JobState] /\ job[j] \in JobState
  BY DEF IInv, TypeOK
<1> DEFINE old == job[j]
           Follows(state) == /\ state.kind = old.kind
                             /\ state.phase \in {"request", "refresh", "conflict", "done"}
<1>2. ASSUME NEW state, Becomes(j, state), Follows(state)
      PROVE  /\ wrote' = wrote /\ removed' = removed /\ misled' = misled
             /\ \A k \in Jobs \ {j} : job'[k] = job[k]
             /\ job'[j].kind = job[j].kind
             /\ job'[j].phase \in {"request", "refresh", "conflict", "done"}
  BY <1>1, <1>2 DEF Becomes, historyVars
<1>3. Waiting(j)
  BY DEF Handler, CreateFinished, ModifyFinished, DeleteFinished, MoveFinished,
         FetchFinished, ItemRefreshed, ConflictingItemFetched, HasAnswer, Waiting
<1>4. ASSUME NEW error, NEW status
      PROVE  /\ Follows(Fails(old, error, status))
             /\ Follows([Fails(old, error, status) EXCEPT !.phase = "conflict"])
  BY <1>1 DEF Fails, JobState
<1>5. ASSUME NEW url
      PROVE  old.phase = "request" =>
                Follows(StoredAt(old, url)) /\ Follows(RedirectedTo(old, url))
  BY <1>1 DEF StoredAt, RedirectedTo, JobState
<1>6. ASSUME NEW item, NEW code, NEW fresh, NEW etag
      PROVE  /\ Follows([old EXCEPT !.phase = "done"])
             /\ Follows([old EXCEPT !.phase = "done", !.latestResponseCode = code,
                                 !.item = item])
             /\ Follows([old EXCEPT !.phase = "done", !.item.etag = etag])
             /\ Follows([old EXCEPT !.phase = "done", !.freshResponseCode = code,
                                 !.freshItem = fresh])
  BY <1>1 DEF JobState
<1>7. \E state : Becomes(j, state) /\ Follows(state)
  <2> HIDE DEF Follows
  <2>1. CASE CreateFinished(j)
    <3>1. /\ old.phase = "request"
          /\ \/ Becomes(j, Fails(old, "ERR_ITEMCREATE", reply[j].status))
             \/ Becomes(j, StoredAt(old, reply[j].location))
             \/ Becomes(j, Fails(old, "UserDefinedError", reply[j].status))
             \/ Becomes(j, RedirectedTo(old, reply[j].location))
      BY <2>1 DEF CreateFinished, HasAnswer
    <3> QED BY <1>4, <1>5, <3>1
  <2>2. CASE ModifyFinished(j)
    <3> DEFINE failed == Fails(old, "ERR_ITEMMODIFY", reply[j].status)
    <3>1. /\ old.phase = "request"
          /\ \/ Becomes(j, StoredAt(old, reply[j].location))
             \/ Becomes(j, [failed EXCEPT !.phase = "conflict"])
             \/ Becomes(j, failed)
      BY <2>2 DEF ModifyFinished, HasAnswer
    <3> QED BY <1>4, <1>5, <3>1
  <2>3. CASE DeleteFinished(j)
    <3> DEFINE failed == Fails(old, "ERR_ITEMDELETE", reply[j].status)
    <3>1. \/ Becomes(j, [old EXCEPT !.phase = "done"])
          \/ Becomes(j, [failed EXCEPT !.phase = "conflict"])
          \/ Becomes(j, failed)
      BY <2>3 DEF DeleteFinished
    <3> QED BY <1>4, <1>6, <3>1
  <2>4. CASE MoveFinished(j)
    <3>1. \/ Becomes(j, [old EXCEPT !.phase = "done"])
          \/ Becomes(j, Fails(old, "ERR_ITEMMOVE", reply[j].status))
      BY <2>4 DEF MoveFinished
    <3> QED BY <1>4, <1>6, <3>1
  <2>5. CASE FetchFinished(j)
    <3>1. \/ Becomes(j, Fails(old, "ERR_PROBLEM_WITH_REQUEST", reply[j].status))
          \/ Becomes(j, [old EXCEPT !.phase = "done",
                                    !.latestResponseCode = reply[j].status,
                                    !.item = FetchedItem(old.item, reply[j])])
      BY <1>1, <2>5 DEF FetchFinished, JobState
    <3> QED BY <1>4, <1>6, <3>1
  <2>6. CASE ItemRefreshed(j)
    BY <1>6, <2>6 DEF ItemRefreshed
  <2>7. CASE ConflictingItemFetched(j)
    <3> DEFINE code == reply[j].status
               fresh == IF reply[j].netError THEN {}
                        ELSE {FetchedItem(old.item, reply[j])}
    <3>1. Becomes(j, [old EXCEPT !.phase = "done", !.freshResponseCode = code,
                                 !.freshItem = fresh])
      BY <2>7 DEF ConflictingItemFetched
    <3> HIDE DEF code, fresh
    <3> QED BY <1>6, <3>1
  <2> QED BY <2>1, <2>2, <2>3, <2>4, <2>5, <2>6, <2>7 DEF Handler
<1> QED BY <1>2, <1>3, <1>7

LEMMA OthersEffect ==
    /\ \A j \in Jobs : AnswerLost(j) => UNCHANGED <<job, wrote, removed, misled>>
    /\ \A o \in Others : OtherClient(o) => UNCHANGED <<job, wrote, removed, misled>>
    /\ Quiescent \/ UNCHANGED vars => UNCHANGED <<job, wrote, removed, misled>>
BY DEF AnswerLost, OtherClient, Quiescent, vars, historyVars

LEMMA StepEInv == EInv /\ [Next]_vars => EInv'
<1> SUFFICES ASSUME EInv, [Next]_vars PROVE EInv' OBVIOUS
<1>1. IInv /\ IInv'
  BY StepIInv DEF EInv
<1>2. ASSUME NEW k \in Jobs PROVE KindInv(k)'
  <2>1. KindInv(k)
    BY DEF EInv
  <2>2. ASSUME job'[k] = job[k], SameEffect(k) PROVE KindInv(k)'
    BY <2>1, <2>2 DEF KindInv, Untouched, SameEffect
  <2>3. ASSUME NEW j \in Jobs, Starts(j) PROVE KindInv(k)'
    <3>1. /\ SameEffect(k)
          /\ k # j => job'[k] = job[k]
          /\ job'[j].kind # "none" /\ Untouched(j)'
      BY <1>1, <2>3, StartEffect DEF SameEffect, Untouched
    <3>2. CASE k = j
      BY <3>1, <3>2 DEF KindInv
    <3> QED BY <2>2, <3>1, <3>2
  <2>4. ASSUME NEW j \in Jobs, ServerStep(j) PROVE KindInv(k)'
    <3>1. job'[k] = job[k] /\ (SameEffect(k) \/ HasRequest(k))
      <4>1. CASE k = j
        BY <1>1, <2>4, <4>1, ServerEffect
      <4>2. CASE k # j
        BY <1>1, <2>4, <4>2, ServerEffect DEF SameEffect
      <4> QED BY <4>1, <4>2
    <3>2. CASE HasRequest(k)
      BY <2>1, <3>1, <3>2 DEF KindInv, HasRequest
    <3> QED BY <2>2, <3>1, <3>2
  <2>5. ASSUME NEW j \in Jobs, Handler(j) PROVE KindInv(k)'
    <3>1. /\ SameEffect(k)
          /\ k # j => job'[k] = job[k]
          /\ job'[j].kind = job[j].kind /\ job[j].phase # "new"
      BY <1>1, <2>5, HandlerEffect DEF SameEffect, Waiting
    <3>2. CASE k = j
      BY <2>1, <3>1, <3>2 DEF KindInv, Untouched, SameEffect
    <3> QED BY <2>2, <3>1, <3>2
  <2>6. CASE UNCHANGED <<job, wrote, removed, misled>>
    BY <2>2, <2>6 DEF SameEffect
  <2> QED BY <2>3, <2>4, <2>5, <2>6, OthersEffect DEF Next
<1> QED BY <1>1, <1>2 DEF EInv

\* A job that left no mark, in the terms of OneEffect.
LEMMA UntouchedEffect ==
    ASSUME NEW j, Untouched(j)
    PROVE  <<wrote[j], j \in removed>> = <<NoEtag, FALSE>>
<1>1. wrote[j] = NoEtag
  BY DEF Untouched
<1>2. (j \in removed) = FALSE
  BY DEF Untouched
<1> QED BY <1>1, <1>2

\* Nothing about the job changes but the answer to its request.
LEMMA JobStaysOE ==
    ASSUME NEW j \in Jobs, job'[j] = job[j], SameEffect(j)
    PROVE  OneEffectStep(j)
<1>1. Outcome(j)' = Outcome(j) /\ Done(j)' = Done(j) /\ Waiting(j)' = Waiting(j)
  BY DEF Outcome, Done, Succeeded, Waiting, SameEffect
<1>2. (j \in removed') = (j \in removed) /\ wrote'[j] = wrote[j]
  BY DEF SameEffect
<1> QED BY <1>1, <1>2 DEF OneEffectStep, OE!vars

\* The server handles the request of a job, which has had no effect yet.
LEMMA RequestHandledOE ==
    ASSUME NEW j \in Jobs, job'[j] = job[j], Untouched(j), Waiting(j)
    PROVE  OneEffectStep(j)
<1>1. CASE SameEffect(j)
  BY <1>1, JobStaysOE
<1>2. CASE ~SameEffect(j)
  <2>1. <<wrote[j], j \in removed>> = <<NoEtag, FALSE>>
    BY UntouchedEffect
  <2>2. <<wrote'[j], j \in removed'>> # <<NoEtag, FALSE>>
    BY <1>2 DEF Untouched, SameEffect, Done, Waiting
  <2>3. /\ ~Done(j) /\ Done(j)' = Done(j) /\ Waiting(j)' = Waiting(j)
        /\ Outcome(j) = "pending" /\ Outcome(j)' = "pending"
    BY DEF Outcome, Done, Waiting
  <2> QED BY <2>1, <2>2, <2>3 DEF OneEffectStep, OE!Next, OE!TakesEffect
<1> QED BY <1>1, <1>2

\* A job that starts, goes on or ends.
LEMMA JobGoesOnOE ==
    ASSUME EInv', NEW j \in Jobs, wrote' = wrote, removed' = removed,
           job[j].phase = "new" \/ Waiting(j), (Waiting(j) \/ Done(j))'
    PROVE  OneEffectStep(j)
<1>1. /\ ~Done(j) /\ Outcome(j) = "pending"
      /\ job[j].phase = "new" => ~Waiting(j)
  BY DEF Outcome, Done, Waiting
<1>2. CASE Waiting(j)'
  <2>1. ~Done(j)' /\ Outcome(j)' = "pending"
    BY <1>2 DEF Outcome, Done, Waiting
  <2> QED BY <1>1, <1>2, <2>1 DEF OneEffectStep, OE!Next, OE!Start, OE!vars
<1>3. CASE Done(j)'
  <2>1. /\ DoneInv(j)' /\ KindInv(j)' /\ job'[j].kind \in Kind
        /\ job'[j].kind # "none" /\ EnvInv'
    BY <1>3 DEF EInv, IInv, TypeOK, JobState, JobInv, Done, KindInv
  <2>2. Outcome(j)' \in {"done", "nothing", "unknown"}
    BY <1>3 DEF Outcome
  <2>3. Outcome(j)' = "done" => ~Untouched(j)'
    <3>1. SUFFICES ASSUME Outcome(j)' = "done" PROVE ~Untouched(j)'
      OBVIOUS
    <3>2. job'[j].error = NO_ERR /\ job'[j].kind # "fetch" /\ j \notin misled'
      BY <3>1 DEF Outcome, Succeeded
    <3>3. CASE job'[j].kind \in {"create", "modify"}
      <4> DEFINE stored == [job'[j].item EXCEPT !.etag = wrote'[j]]
      <4>1. stored \in versions'
        BY <2>1, <3>2, <3>3 DEF DoneInv, Stores
      <4>2. stored.etag # NoEtag
        BY <2>1, <4>1 DEF EnvInv
      <4>3. job'[j].item \in DavItem
        BY DEF EInv, IInv, TypeOK, JobState
      <4>4. stored.etag = wrote'[j]
        BY <4>3 DEF DavItem
      <4> QED BY <4>2, <4>4 DEF Untouched
    <3>4. CASE job'[j].kind \in {"move", "delete"}
      BY <2>1, <3>2, <3>4 DEF DoneInv, Untouched
    <3> QED BY <2>1, <3>2, <3>3, <3>4 DEF Kind
  <2>4. Outcome(j)' = "nothing" => Untouched(j)'
    BY <2>1 DEF Outcome, Succeeded, Done, DoneInv, KindInv
  <2>5. ~Untouched(j) => <<wrote[j], j \in removed>> # <<NoEtag, FALSE>>
    BY DEF Untouched
  <2>6. Untouched(j) => <<wrote[j], j \in removed>> = <<NoEtag, FALSE>>
    BY UntouchedEffect
  <2>7. Untouched(j)' = Untouched(j)
    BY DEF Untouched
  <2> QED BY <1>1, <1>3, <2>2, <2>3, <2>4, <2>5, <2>6, <2>7
          DEF OneEffectStep, OE!Next, OE!Ends
<1> QED BY <1>2, <1>3

LEMMA StepOE ==
    ASSUME EInv, [Next]_vars
    PROVE  \A k \in Jobs : OneEffectStep(k)
<1> SUFFICES ASSUME NEW k \in Jobs PROVE OneEffectStep(k) OBVIOUS
<1>1. EInv' /\ IInv
  BY StepEInv DEF EInv
<1>2. ASSUME NEW j \in Jobs, Starts(j) PROVE OneEffectStep(k)
  <2>1. /\ wrote' = wrote /\ removed' = removed /\ SameEffect(k)
        /\ k # j => job'[k] = job[k]
        /\ job[j].phase = "new" /\ Waiting(j)'
    BY <1>1, <1>2, StartEffect DEF SameEffect, Waiting
  <2> QED BY <1>1, <2>1, JobGoesOnOE, JobStaysOE
<1>3. ASSUME NEW j \in Jobs, ServerStep(j) PROVE OneEffectStep(k)
  <2>1. job'[k] = job[k] /\ (SameEffect(k) \/ HasRequest(k))
    <3>1. CASE k = j
      BY <1>1, <1>3, <3>1, ServerEffect
    <3>2. CASE k # j
      BY <1>1, <1>3, <3>2, ServerEffect DEF SameEffect
    <3> QED BY <3>1, <3>2
  <2>2. HasRequest(k) => Waiting(k) /\ Untouched(k)
    BY DEF HasRequest, Waiting
  <2> QED BY <2>1, <2>2, RequestHandledOE, JobStaysOE
<1>4. ASSUME NEW j \in Jobs, Handler(j) PROVE OneEffectStep(k)
  <2>1. /\ wrote' = wrote /\ removed' = removed /\ SameEffect(k)
        /\ k # j => job'[k] = job[k]
        /\ Waiting(j) /\ (Waiting(j) \/ Done(j))'
    BY <1>1, <1>4, HandlerEffect DEF SameEffect, Waiting, Done
  <2> QED BY <1>1, <2>1, JobGoesOnOE, JobStaysOE
<1>5. CASE UNCHANGED <<job, wrote, removed, misled>>
  BY <1>5, JobStaysOE DEF SameEffect
<1> QED BY <1>2, <1>3, <1>4, <1>5, OthersEffect DEF Next

(***************************************************************************)
(* The theorems.                                                           *)
(***************************************************************************)

\* The inductive invariant holds in every reachable state.
THEOREM Invariance == Spec => []IInv
<1> QED BY InitIInv, StepIInv, PTL DEF Spec

\* Every variable stays in its type: ETags and redirect counts are natural.
THEOREM TypeCorrectness == Spec => []TypeOK
<1>1. IInv => TypeOK
  BY DEF IInv
<1> QED BY <1>1, Invariance, PTL

\* A job that ends without an error did what it was asked, unless its request
\* became a GET.
THEOREM SuccessIsDone == Spec => []SuccessMeansDone
<1>1. IInv => SuccessMeansDone
  BY DEF IInv, JobInv, DoneInv, SuccessMeansDone, Succeeded, Done
<1> QED BY <1>1, Invariance, PTL

\* A job that ends with a refusal changed nothing.
THEOREM RefusalIsSafe == Spec => []RefusedMeansUntouched
<1>1. IInv => RefusedMeansUntouched
  BY DEF IInv, JobInv, DoneInv, RefusedMeansUntouched, Done, Untouched
<1> QED BY <1>1, Invariance, PTL

\* A job whose request failed its precondition reports a conflict, whether or
\* not it got the other version, and what it hands out is such a version.
THEOREM ConflictsAreReported == Spec => []ConflictHandsOutOtherVersion
<1>1. IInv => ConflictHandsOutOtherVersion
  <2> SUFFICES ASSUME IInv, NEW j \in Jobs, Done(j)
               PROVE  /\ j \in refused <=> job[j].error # NO_ERR /\ Conflicts(j)
                      /\ \A fresh \in job[j].freshItem :
                            /\ j \in refused
                            /\ job[j].freshResponseCode \in 200 .. 299
                            /\ fresh.url = job[j].item.url
                            /\ OtherVersion(j, fresh.etag, fresh.data)
    BY DEF ConflictHandsOutOtherVersion, OtherVersion
  <2>1. DoneInv(j)
    BY DEF IInv, JobInv, Done
  <2> QED BY <2>1 DEF DoneInv, HandsOutOther
<1> QED BY <1>1, Invariance, PTL

\* The ETag of a modified item is not one from before.
THEOREM EtagsAreFresh == Spec => []EtagNotOlderThanWrite
<1>1. IInv => EtagNotOlderThanWrite
  BY DEF IInv, JobInv, DoneInv, EtagNotOlderThanWrite, Succeeded, Done
<1> QED BY <1>1, Invariance, PTL

\* Every job implements OneEffect: what it stores, moves or removes it does
\* once, after start() and before result(), however often it is redirected,
\* and result() tells whether it did, unless its request became a GET.
THEOREM Implementation == Spec => ActsOnce
<1>1. Init => \A j \in Jobs : OE(j)!Init
  BY InitEInv
<1>2. Spec => []EInv
  BY InitEInv, StepEInv, PTL DEF Spec
<1>3. EInv /\ [Next]_vars =>
          [\A j \in Jobs : OE(j)!Next \/ UNCHANGED OE(j)!vars]_vars
  BY StepOE DEF OneEffectStep
<1> QED BY <1>1, <1>2, <1>3, PTL DEF Spec, ActsOnce

\* No step of a job takes away what it never saw.
LEMMA StoringKeepsEdits ==
    ASSUME IInv, NEW j \in Jobs, ServerPut(j), wrote'[j] # wrote[j],
           job[j].kind = "create" \/ Base(j) \in versions, NEW u \in Urls
    PROVE  server[u].data \subseteq server'[u].data
<1> DEFINE item == job[j].item
<1>1. /\ job[j].phase = "request" /\ reply[j] = NoReply
      /\ job[j].kind \in {"create", "modify"}
  BY DEF ServerPut, IsRequest
<1>2. PICK v \in Urls : /\ v = Home[item.url] \/ ~Present(v)
                        /\ StoresAt(v, item.data) /\ Precondition(j)
  BY HomeIsUrl DEF ServerPut, FailsPrecondition
<1>3. /\ server'[v].data = item.data
      /\ \A w \in Urls \ {v} : server'[w] = server[w]
  BY <1>2 DEF StoresAt, IInv, TypeOK
<1>4. CASE ~Present(v)
  <2>1. server[v].data = {}
    BY <1>4 DEF Present, IInv, EnvInv
  <2> QED BY <1>3, <2>1
<1>5. CASE v = Home[item.url] /\ job[j].kind = "create"
  BY <1>2, <1>5, <1>4 DEF Precondition
<1>6. CASE v = Home[item.url] /\ job[j].kind = "modify"
  <2> DEFINE base == Base(j)
  <2>1. base \in versions /\ item \in DavItem
    BY <1>1, <1>6, Requested
  <2>2. base.etag = item.etag /\ base.data = item.data \ {j}
    BY <2>1 DEF Base, DavItem
  <2> HIDE DEF base
  <2>3. item.etag # NoEtag
    BY <2>1, <2>2 DEF IInv, EnvInv
  <2>4. server[v].etag = item.etag
    BY <1>2, <1>6, <2>3 DEF Precondition
  <2>5. At(v, server[v]) \in versions
    BY <2>3, <2>4 DEF IInv, EnvInv
  <2>6. At(v, server[v]).etag = base.etag /\ At(v, server[v]).data = server[v].data
    BY <2>2, <2>4 DEF At
  <2>7. server[v].data = base.data
    BY <2>1, <2>5, <2>6 DEF IInv, EnvInv
  <2> QED BY <1>3, <2>2, <2>7
<1> QED BY <1>1, <1>2, <1>5, <1>6, <1>4

LEMMA DeletingRemovesTheSeen ==
    ASSUME IInv, NEW j \in Jobs, ServerDelete(j), j \in removed' \ removed,
           NEW u \in Urls, server'[u] # server[u]
    PROVE  job[j].item.etag \in {NoEtag, server[u].etag}
<1>1. /\ job[j].kind = "delete"
      /\ \/ Precondition(j) \/ server' = server
      /\ \/ server' = [server EXCEPT ![Home[job[j].item.url]] = Nowhere]
         \/ server' = server
  BY DEF ServerDelete, IsRequest, FailsPrecondition, envVars
<1>2. u = Home[job[j].item.url]
  BY <1>1 DEF IInv, TypeOK
<1> QED BY <1>1, <1>2 DEF Precondition

\* A job writes or removes only in the server's step for its own request.
LEMMA WhoWrites ==
    ASSUME IInv, NEW j \in Jobs, Next,
           (wrote'[j] # wrote[j] /\ Stores(j)) \/ j \in removed' \ removed
    PROVE  /\ wrote'[j] # wrote[j] /\ Stores(j) => ServerPut(j)
           /\ j \in removed' \ removed => ServerDelete(j)
<1>1. ASSUME NEW k \in Jobs, Starts(k) PROVE UNCHANGED <<wrote, removed>>
  BY <1>1 DEF Starts, StartCreate, StartModify, StartDelete, StartMove, StartFetch,
              StartWith, historyVars
<1>2. ASSUME NEW k \in Jobs,
             \/ ServerRedirects(k) \/ ServerGet(k) \/ FollowedAsGet(k)
             \/ RequestFails(k) \/ AnswerLost(k)
      PROVE  UNCHANGED <<wrote, removed>>
  BY <1>2 DEF ServerRedirects, ServerGet, FollowedAsGet, RequestFails, AnswerLost,
              historyVars
<1>3. ASSUME NEW k \in Jobs, Handler(k) PROVE UNCHANGED <<wrote, removed>>
  <2>1. PICK state : Becomes(k, state)
    BY <1>3 DEF Handler, CreateFinished, ModifyFinished, DeleteFinished, MoveFinished,
                FetchFinished, ItemRefreshed, ConflictingItemFetched
  <2> QED BY <2>1 DEF Becomes, historyVars
<1>4. ASSUME NEW k \in Jobs, ServerPut(k)
      PROVE  removed' = removed /\ (k # j => wrote'[j] = wrote[j])
  BY <1>4 DEF ServerPut, FailsPrecondition, IInv, TypeOK
<1>5. ASSUME NEW k \in Jobs, ServerDelete(k)
      PROVE  wrote' = wrote /\ removed' \subseteq removed \cup {k}
  BY <1>5 DEF ServerDelete, FailsPrecondition
<1>6. ASSUME NEW k \in Jobs, ServerMove(k)
      PROVE  /\ removed' = removed /\ (k # j => wrote'[j] = wrote[j])
             /\ job[k].kind = "move"
  BY <1>6 DEF ServerMove, IsRequest, historyVars, IInv, TypeOK
<1>7. ASSUME NEW o \in Others, OtherClient(o) PROVE UNCHANGED <<wrote, removed>>
  BY <1>7 DEF OtherClient
<1>8. Quiescent => UNCHANGED <<wrote, removed>>
  BY DEF Quiescent, vars, historyVars
<1>9. PICK k \in Jobs : ServerPut(k) \/ ServerDelete(k) \/ ServerMove(k)
  BY <1>1, <1>2, <1>3, <1>7, <1>8 DEF Next, ServerStep
<1> QED BY <1>4, <1>5, <1>6, <1>9 DEF Stores

\* No update of another client is lost.
THEOREM NoLostUpdate == Spec => KeepsOthersEdits
<1> DEFINE Keeps(j) ==
             /\ /\ wrote'[j] # wrote[j] /\ Stores(j)
                /\ job[j].kind = "create" \/ Base(j) \in versions
                => \A u \in Urls : server[u].data \subseteq server'[u].data
             /\ j \in removed' \ removed =>
                   \A u \in Urls : server'[u] # server[u] =>
                       job[j].item.etag \in {NoEtag, server[u].etag}
<1>1. ASSUME IInv, Next, NEW j \in Jobs
      PROVE  Keeps(j)
  BY <1>1, WhoWrites, StoringKeepsEdits, DeletingRemovesTheSeen
<1>2. IInv /\ [Next]_vars => [\A j \in Jobs : Keeps(j)]_vars
  BY <1>1
<1> QED BY <1>2, Invariance, PTL DEF Spec, KeepsOthersEdits

=============================================================================
