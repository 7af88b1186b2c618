---------------------- MODULE CollectionsFetchJob_proofs ----------------------
(***************************************************************************)
(* Proofs about CollectionsFetchJob, for any number of URLs, home sets and *)
(* collections, and answers in any order.                                  *)
(***************************************************************************)
EXTENDS CollectionsFetchJob, FiniteSetTheorems, TLAPS

(***************************************************************************)
(* The inductive invariant.  The jobs do not share anything but misled, so *)
(* it is stated of one job: its state, its requests, its failures.         *)
(***************************************************************************)

\* What a request of job s may be answered with.
Expected(s, r) ==
    {Idle, Sent, Malformed} \cup [state : {"failed"}, status : Nat]
    \cup (IF r = Principal
          THEN {Principals200(homeSets, named) :
                    homeSets \in {{}, Advertised[s]}, named \in BOOLEAN}
          ELSE {Listing(Contents[s][r])})

Busy(n) == {r \in Requests : n[r] # Idle}
Fetching(n) == Busy(n) \cap Fetches

Types(s, state, n, failed) ==
    /\ state \in JobState
    /\ n \in [Requests -> Messages]
    /\ \A r \in Requests : n[r] \in Expected(s, r)
    /\ failed \subseteq Requests

Fresh(state, failed) ==
    /\ state.mSubJobCount = 0 /\ state.results = 0
    /\ state.error = NO_ERR /\ state.latestResponseCode = 0
    /\ ~state.mForceRetryLater
    /\ state.collections = NoCollections /\ state.discovered = NoCollections
    /\ failed = {}

\* The job waits for the principal or for some of its fetches, which it counts.
Counting(s, state, n, failed) ==
    /\ state.mSubJobCount = Cardinality(Fetching(n))
    /\ ~state.started => Busy(n) = {} /\ Fresh(state, failed)
    /\ Principal \in Busy(n) =>
          Busy(n) = {Principal} /\ Fresh(state, failed) /\ s \in Principals
    /\ Busy(n) # {} => state.results = 0

\* The principal is named when it was asked for, which is in the first round.
Rounds(state, n) ==
    /\ state.rounds <= (IF state.asksPrincipal THEN 1 ELSE 2)
    /\ ~state.started => state.rounds = 0
    /\ n[Principal].state = "principals" /\ n[Principal].named =>
          state.asksPrincipal

\* The error state sums up the requests that failed.
Outcome(state, n, failed) ==
    /\ state.error = NO_ERR <=> failed = {}
    /\ state.mForceRetryLater <=> failed \cap HomeSets # {}
    /\ state.latestResponseCode # 0 => state.error = "ERR_PROBLEM_WITH_REQUEST"
    /\ state.results > 0 /\ state.error # NO_ERR =>
          state.collections = NoCollections

\* Of the fetches that were answered, every collection is in the list once.
Listed(s, n) ==
    {c \in UNION {Contents[s][f] : f \in FetchesOf(s) \ Busy(n)} : IsCollection(s, c)}

Complete1(s, state, n, lost) ==
    /\ s \notin lost /\ n[Principal].state = "malformed" => Advertised[s] = {}
    /\ s \notin lost /\ n[Principal].state = "principals" =>
          n[Principal].named \/ n[Principal].homeSets = Advertised[s]
    /\ s \notin lost /\ state.started /\ Principal \notin Busy(n)
          /\ state.error = NO_ERR =>
          /\ Busy(n) \subseteq FetchesOf(s)
          /\ state.discovered = state.collections
          /\ state.collections = [c \in Collections |->
                                     IF c \in Listed(s, n) THEN 1 ELSE 0]

JobInv(s, state, n, lost, failed) ==
    /\ Types(s, state, n, failed)
    /\ Counting(s, state, n, failed)
    /\ Rounds(state, n)
    /\ Outcome(state, n, failed)
    /\ Complete1(s, state, n, lost)

IInv ==
    /\ job = [s \in Sources |-> job[s]]
    /\ net = [s \in Sources |-> net[s]]
    /\ failures = [s \in Sources |-> failures[s]]
    /\ misled \subseteq Sources
    /\ \A s \in Sources : JobInv(s, job[s], net[s], misled, failures[s])

(***************************************************************************)
(* Facts about the data.                                                   *)
(***************************************************************************)

LEMMA ErrorNumbers ==
    /\ {NO_ERR, "ERR_PROBLEM_WITH_REQUEST", "ERR_COLLECTIONFETCH"}
          \subseteq ErrorNumber
    /\ "ERR_PROBLEM_WITH_REQUEST" # NO_ERR
    /\ "ERR_COLLECTIONFETCH" # NO_ERR
    /\ "ERR_COLLECTIONFETCH" # "ERR_PROBLEM_WITH_REQUEST"
BY DEF ErrorNumber, NO_ERR

\* Messages are told apart by their state.
LEMMA MessageStates ==
    ASSUME NEW s \in Sources, NEW r \in Requests, NEW m \in Expected(s, r)
    PROVE  /\ m \in Messages
           /\ m.state \in {"idle", "sent", "malformed", "failed", "principals",
                           "listing"}
           /\ m = Idle <=> m.state = "idle"
           /\ m = Sent <=> m.state = "sent"
           /\ m.state = "failed" => m.status \in Nat
           /\ m.state = "principals" =>
                 /\ r = Principal
                 /\ m.homeSets \in {{}, Advertised[s]} /\ m.named \in BOOLEAN
           /\ m.state = "listing" =>
                 /\ r # Principal
                 /\ m.collections = Contents[s][r]
<1> USE DEF Idle, Sent, Malformed, Principals200, Listing
<1>1. Advertised[s] \subseteq HomeSets
  BY CollectionsFetchAssumption
<1>2. CASE r = Principal
  <2>1. CASE m \in {Idle, Sent, Malformed} \cup [state : {"failed"}, status : Nat]
    BY <2>1 DEF Messages
  <2>2. CASE m \in {Principals200(homeSets, named) :
                        homeSets \in {{}, Advertised[s]}, named \in BOOLEAN}
    BY <1>1, <1>2, <2>2 DEF Messages
  <2> QED BY <1>2, <2>1, <2>2 DEF Expected
<1>3. CASE r # Principal
  <2>1. r \in Fetches /\ Contents[s][r] \subseteq Collections
    BY <1>3, CollectionsFetchAssumption DEF Requests
  <2>2. CASE m \in {Idle, Sent, Malformed} \cup [state : {"failed"}, status : Nat]
    BY <2>2 DEF Messages
  <2>3. CASE m = Listing(Contents[s][r])
    BY <1>3, <2>1, <2>3 DEF Messages
  <2> QED BY <1>3, <2>2, <2>3 DEF Expected
<1> QED BY <1>2, <1>3

LEMMA FetchesAreFinite ==
    /\ IsFiniteSet(Fetches)
    /\ \A f \in SUBSET Fetches :
          /\ IsFiniteSet(f) /\ Cardinality(f) \in Nat
          /\ Cardinality(f) = 0 <=> f = {}
<1>1. IsFiniteSet(Fetches)
  BY CollectionsFetchAssumption, FS_AddElement DEF Fetches
<1> QED BY <1>1, FS_Subset, FS_CardinalityType, FS_EmptySet

LEMMA FetchesOfType ==
    ASSUME NEW s \in Sources
    PROVE  FetchesOf(s) \in SUBSET Fetches /\ FetchesOf(s) # {}
BY CollectionsFetchAssumption DEF FetchesOf, Fetches

\* One job changes, the others stay as they are.
LEMMA OneJob ==
    ASSUME IInv, NEW s \in Sources, NEW state, NEW n, NEW failed,
           job' = [job EXCEPT ![s] = state],
           net' = [net EXCEPT ![s] = n],
           failures' = [failures EXCEPT ![s] = failed],
           misled' \subseteq Sources,
           \A q \in Sources \ {s} : q \in misled' <=> q \in misled,
           JobInv(s, state, n, misled', failed)
    PROVE  IInv'
<1>1. /\ job' = [q \in Sources |-> job'[q]] /\ net' = [q \in Sources |-> net'[q]]
      /\ failures' = [q \in Sources |-> failures'[q]]
  BY DEF IInv
<1>2. ASSUME NEW q \in Sources
      PROVE  JobInv(q, job'[q], net'[q], misled', failures'[q])
  <2>1. CASE q = s
    <3>1. job'[q] = state /\ net'[q] = n /\ failures'[q] = failed
      BY <2>1 DEF IInv
    <3> QED BY <2>1, <3>1
  <2>2. CASE q # s
    <3>1. job'[q] = job[q] /\ net'[q] = net[q] /\ failures'[q] = failures[q]
      BY <2>2 DEF IInv
    <3>2. JobInv(q, job[q], net[q], misled, failures[q])
      BY DEF IInv
    <3>3. Complete1(q, job[q], net[q], misled')
      BY <2>2, <3>2 DEF JobInv, Complete1
    <3> QED BY <3>1, <3>2, <3>3 DEF JobInv
  <2> QED BY <2>1, <2>2
<1> QED BY <1>1, <1>2 DEF IInv

(***************************************************************************)
(* Requests are sent.                                                      *)
(***************************************************************************)

LEMMA NoListYet ==
    ASSUME NEW s \in Sources, NEW n, FetchesOf(s) \subseteq Busy(n)
    PROVE  NoCollections = [c \in Collections |-> IF c \in Listed(s, n) THEN 1 ELSE 0]
<1>1. Listed(s, n) = {} BY DEF Listed
<1> QED BY <1>1 DEF NoCollections

LEMMA HomeSetsAsked ==
    ASSUME NEW state \in JobState, NEW homeSetsOnly \in BOOLEAN
    PROVE  LET next == FetchHomeSets(state, homeSetsOnly)
           IN  /\ next \in JobState /\ next.rounds = state.rounds + 1
               /\ next.asksPrincipal <=> ~homeSetsOnly
               /\ next.started = state.started
               /\ Fresh(state, {}) => Fresh(next, {})
<1> DEFINE asks == ~homeSetsOnly
           next == [state EXCEPT !.asksPrincipal = asks, !.rounds = @ + 1]
<1>1. asks \in BOOLEAN
  OBVIOUS
<1>2. FetchHomeSets(state, homeSetsOnly) = next
  BY DEF FetchHomeSets
<1> HIDE DEF asks
<1>3. state.rounds + 1 \in Nat
  BY DEF JobState
<1>4. /\ next \in JobState /\ next.rounds = state.rounds + 1
      /\ next.asksPrincipal = asks /\ next.started = state.started
      /\ next.mSubJobCount = state.mSubJobCount
      /\ next.results = state.results /\ next.error = state.error
      /\ next.latestResponseCode = state.latestResponseCode
      /\ next.mForceRetryLater = state.mForceRetryLater
      /\ next.collections = state.collections
      /\ next.discovered = state.discovered
  BY <1>1, <1>3 DEF JobState
<1> HIDE DEF next
<1>5. Fresh(state, {}) => Fresh(next, {})
  BY <1>4 DEF Fresh
<1>6. next.asksPrincipal <=> ~homeSetsOnly
  BY <1>4 DEF asks
<1> QED BY <1>2, <1>4, <1>5, <1>6

\* A request for the principal: none but that is in flight.
LEMMA PrincipalSent ==
    ASSUME NEW s \in Principals, NEW n \in [Requests -> Messages],
           Busy(n) \subseteq {Principal},
           NEW m, m = [r \in Requests |-> IF r = Principal THEN Sent ELSE n[r]],
           NEW state \in JobState, NEW lost,
           Fresh(state, {}), state.started, state.rounds <= 2,
           state.asksPrincipal => state.rounds <= 1
    PROVE  JobInv(s, state, m, lost, {})
<1>1. s \in Sources /\ Principal \in Requests
  BY DEF Principals, Requests
<1>2. \A r \in Requests : m[r] = IF r = Principal THEN Sent ELSE Idle
  BY DEF Busy
<1>3. Idle # Sent /\ Sent.state = "sent"
  BY DEF Idle, Sent
<1>4. Busy(m) = {Principal}
  BY <1>1, <1>2, <1>3 DEF Busy
<1>5. Fetching(m) = {}
  BY <1>4, CollectionsFetchAssumption DEF Fetching
<1>6. Types(s, state, m, {})
  <2>1. \A r \in Requests : m[r] \in Expected(s, r)
    BY <1>2 DEF Expected
  <2> QED BY <1>1, <2>1, MessageStates DEF Types
<1>7. Counting(s, state, m, {})
  BY <1>4, <1>5, FetchesAreFinite DEF Counting, Fresh
<1>8. Rounds(state, m)
  BY <1>1, <1>2, <1>3 DEF Rounds, JobState
<1>9. Outcome(state, m, {})
  BY DEF Outcome, Fresh
<1>10. Complete1(s, state, m, lost)
  BY <1>1, <1>2, <1>3, <1>4 DEF Complete1
<1> QED BY <1>6, <1>7, <1>8, <1>9, <1>10 DEF JobInv

\* The fetches, all at once.
LEMMA FetchesSent ==
    ASSUME NEW s \in Sources, NEW fetches \in SUBSET Fetches, fetches # {},
           NEW m, m = [r \in Requests |-> IF r \in fetches THEN Sent ELSE Idle],
           NEW state \in JobState, NEW lost,
           Fresh(state, {}), state.started, Rounds(state, m),
           s \notin lost => fetches = FetchesOf(s)
    PROVE  JobInv(s, DoCollectionsFetch(state, fetches), m, lost, {})
<1> DEFINE next == DoCollectionsFetch(state, fetches)
<1>1. Idle # Sent /\ Principal \notin fetches /\ Principal \in Requests
      /\ fetches \subseteq Requests
  BY CollectionsFetchAssumption DEF Idle, Sent, Requests
<1>2. Busy(m) = fetches /\ Fetching(m) = fetches
  BY <1>1 DEF Busy, Fetching
<1>3. Cardinality(fetches) \in Nat
  BY FetchesAreFinite
<1>4. /\ next \in JobState /\ next.mSubJobCount = Cardinality(fetches)
      /\ next.results = 0 /\ next.started
      /\ next.error = NO_ERR /\ next.latestResponseCode = 0
      /\ ~next.mForceRetryLater
      /\ next.collections = NoCollections /\ next.discovered = NoCollections
      /\ next.rounds = state.rounds /\ next.asksPrincipal = state.asksPrincipal
  BY <1>3 DEF DoCollectionsFetch, Fresh, JobState
<1> HIDE DEF next
<1>5. Types(s, next, m, {})
  <2>1. \A r \in Requests : m[r] \in Expected(s, r)
    BY DEF Expected
  <2> QED BY <1>4, <2>1, MessageStates DEF Types
<1>6. Counting(s, next, m, {})
  BY <1>1, <1>2, <1>4 DEF Counting
<1>7. Rounds(next, m)
  BY <1>4 DEF Rounds
<1>8. Outcome(next, m, {})
  BY <1>4 DEF Outcome
<1>9. Complete1(s, next, m, lost)
  <2>1. m[Principal] = Idle /\ Idle.state = "idle"
    BY <1>1 DEF Idle
  <2>2. s \notin lost => NoCollections =
            [c \in Collections |-> IF c \in Listed(s, m) THEN 1 ELSE 0]
    BY <1>2, NoListYet
  <2> QED BY <1>2, <1>4, <2>1, <2>2 DEF Complete1
<1> QED BY <1>5, <1>6, <1>7, <1>8, <1>9 DEF JobInv, next

\* start() puts the first request of a new job in flight.
LEMMA StartedInv ==
    ASSUME IInv, NEW s \in Sources, ~job[s].started
    PROVE  /\ failures[s] = {}
           /\ JobInv(s, Started(s), Sends(net[s], {FirstRequest(s)}), misled, {})
<1> DEFINE n == net[s]
<1>1. JobInv(s, job[s], n, misled, failures[s])
  BY DEF IInv
<1>2. /\ job[s] \in JobState /\ n \in [Requests -> Messages] /\ Busy(n) = {}
      /\ Fresh(job[s], {}) /\ failures[s] = {} /\ job[s].rounds = 0
  BY <1>1 DEF JobInv, Types, Counting, Rounds, Fresh
<1>3. JobInv(s, Started(s), Sends(n, {FirstRequest(s)}), misled, {})
  <2>1. CASE s \in Principals
    <3>1. Sends(n, {FirstRequest(s)}) =
              [r \in Requests |-> IF r = Principal THEN Sent ELSE n[r]]
      BY <2>1 DEF Sends, FirstRequest
    <3> DEFINE first == [job[s] EXCEPT !.started = TRUE]
               state == Started(s)
    <3>2. /\ first \in JobState /\ Fresh(first, {}) /\ first.started
          /\ first.rounds = 0
      BY <1>2 DEF JobState, Fresh
    <3>3. state = FetchHomeSets(first, FALSE)
      BY <2>1 DEF Started
    <3> HIDE DEF first, state
    <3>4. /\ state \in JobState /\ Fresh(state, {}) /\ state.started
          /\ state.rounds = 1
      <4>1. FALSE \in BOOLEAN
        OBVIOUS
      <4>2. /\ state \in JobState /\ state.rounds = first.rounds + 1
            /\ state.started = first.started
            /\ Fresh(first, {}) => Fresh(state, {})
        BY <3>2, <3>3, <4>1, HomeSetsAsked
      <4> QED BY <3>2, <4>2
    <3>5. JobInv(s, state, Sends(n, {FirstRequest(s)}), misled, {})
      BY <1>2, <2>1, <3>1, <3>4, PrincipalSent
    <3> QED BY <3>5 DEF state
  <2>2. CASE s \notin Principals
    <3> DEFINE state == [job[s] EXCEPT !.started = TRUE]
               m == Sends(n, {Direct})
    <3>1. m = [r \in Requests |-> IF r \in {Direct} THEN Sent ELSE Idle]
      BY <1>2 DEF Sends, Busy
    <3>2. /\ state \in JobState /\ Fresh(state, {}) /\ state.started
          /\ state.rounds = 0
      BY <1>2 DEF JobState, Fresh
    <3>3. {Direct} \in SUBSET Fetches /\ FetchesOf(s) = {Direct}
      BY <2>2 DEF Fetches, FetchesOf
    <3>4. Rounds(state, m)
      <4>1. m[Principal] = Idle /\ Idle.state = "idle"
        BY <3>1, CollectionsFetchAssumption DEF Requests, Fetches, Idle
      <4> HIDE DEF state, m
      <4> QED BY <3>2, <4>1 DEF Rounds
    <3> HIDE DEF state, m
    <3>5. JobInv(s, DoCollectionsFetch(state, {Direct}), m, misled, {})
      BY <3>1, <3>2, <3>3, <3>4, FetchesSent
    <3>6. /\ Started(s) = DoCollectionsFetch(state, {Direct})
          /\ Sends(n, {FirstRequest(s)}) = m
      BY <2>2 DEF Started, FirstRequest, state, m
    <3> QED BY <3>5, <3>6
  <2> QED BY <2>1, <2>2
<1> QED BY <1>2, <1>3

LEMMA StepStart ==
    ASSUME IInv, NEW s \in Sources, Start(s)
    PROVE  IInv'
<1> DEFINE m == Sends(net[s], {FirstRequest(s)})
<1>1. failures[s] = {} /\ JobInv(s, Started(s), m, misled, {})
  BY StartedInv DEF Start
<1>2. /\ job' = [job EXCEPT ![s] = Started(s)] /\ net' = [net EXCEPT ![s] = m]
      /\ misled' = misled
  BY DEF Start
<1>3. failures' = [failures EXCEPT ![s] = {}]
  BY <1>1 DEF IInv, Start
<1> HIDE DEF m
<1> QED BY <1>1, <1>2, <1>3, OneJob DEF IInv

\* Something is in flight once the job was started.
LEMMA StartEffect ==
    ASSUME IInv, NEW s \in Sources, Start(s)
    PROVE  /\ ~job[s].started /\ job'[s].started = TRUE
           /\ job[s].results = 0 /\ job'[s].results = 0 /\ Busy(net'[s]) # {}
           /\ \A q \in Sources \ {s} : job'[q] = job[q] /\ net'[q] = net[q]
<1>1. /\ ~job[s].started /\ job[s] \in JobState /\ job[s].results = 0
  BY DEF Start, IInv, JobInv, Types, Counting, Fresh
<1>2. /\ job'[s] = Started(s) /\ net'[s] = Sends(net[s], {FirstRequest(s)})
      /\ \A q \in Sources \ {s} : job'[q] = job[q] /\ net'[q] = net[q]
  BY DEF Start, IInv
<1>3. Started(s).started = TRUE /\ Started(s).results = job[s].results
  BY <1>1 DEF Started, FetchHomeSets, DoCollectionsFetch, JobState
<1>4. FirstRequest(s) \in Requests
  BY DEF FirstRequest, Requests, Fetches
<1>5. FirstRequest(s) \in Busy(net'[s])
  BY <1>2, <1>4 DEF Sends, Busy, Idle, Sent
<1> QED BY <1>1, <1>2, <1>3, <1>5

(***************************************************************************)
(* The server answers.                                                     *)
(***************************************************************************)

LEMMA ReplyArrives ==
    ASSUME NEW s \in Sources, NEW state, NEW n, NEW lost, NEW failed,
           JobInv(s, state, n, lost, failed),
           NEW r \in Requests, n[r] = Sent,
           NEW m \in Expected(s, r), m.state \notin {"idle", "sent"},
           NEW more, lost \subseteq more,
           m.state = "principals" /\ m.named => state.asksPrincipal,
           r = Principal /\ m.state = "malformed" /\ s \notin more =>
               Advertised[s] = {},
           m.state = "principals" /\ s \notin more =>
               m.named \/ m.homeSets = Advertised[s]
    PROVE  JobInv(s, state, [n EXCEPT ![r] = m], more, failed)
<1> DEFINE next == [n EXCEPT ![r] = m]
<1>1. /\ next \in [Requests -> Messages] /\ Principal \in Requests
      /\ \A q \in Requests : next[q] = IF q = r THEN m ELSE n[q]
  BY MessageStates DEF JobInv, Types, Requests
<1>2. m # Idle /\ n[r] # Idle
  BY DEF Idle, Sent
<1> HIDE DEF next
<1>3. Busy(next) = Busy(n) /\ Fetching(next) = Fetching(n)
  BY <1>1, <1>2 DEF Busy, Fetching
<1>4. Types(s, state, next, failed)
  BY <1>1 DEF JobInv, Types
<1>5. Counting(s, state, next, failed)
  BY <1>3 DEF JobInv, Counting
<1>6. Rounds(state, next)
  BY <1>1 DEF JobInv, Rounds
<1>7. Outcome(state, next, failed)
  BY DEF JobInv, Outcome
<1>8. Complete1(s, state, next, more)
  <2>1. Listed(s, next) = Listed(s, n)
    BY <1>3 DEF Listed
  <2> QED BY <1>1, <1>3, <2>1 DEF JobInv, Complete1
<1> QED BY <1>4, <1>5, <1>6, <1>7, <1>8 DEF JobInv, next

\* Only who was not asked for home sets alone names the principal.
LEMMA NamingIsAsked ==
    ASSUME NEW s \in Sources, MayName(s)
    PROVE  job[s].asksPrincipal
<1>1. ProtocolOf[s] \in Protocol
  BY CollectionsFetchAssumption
<1>2. ASSUME ~job[s].asksPrincipal
      PROVE  FALSE
  <2>1. "current-user-principal" = PrincipalHomeSet(ProtocolOf[s])
    BY <1>2 DEF MayName, HomeSetsQuery
  <2> QED BY <1>1, <2>1 DEF PrincipalHomeSet, Protocol, NoText
<1> QED BY <1>2

LEMMA StepServer ==
    ASSUME IInv, NEW s \in Sources, NEW r \in Requests, ServerStep(s, r)
    PROVE  IInv' /\ Busy(net'[s]) = Busy(net[s]) /\ job' = job
           /\ \A q \in Sources \ {s} : net'[q] = net[q]
<1>1. JobInv(s, job[s], net[s], misled, failures[s])
  BY DEF IInv
<1>2. ASSUME NEW m \in Expected(s, r), m.state \notin {"idle", "sent"},
             Replies(s, r, m),
             misled \subseteq misled', misled' \subseteq misled \cup {s},
             m.state = "principals" /\ m.named => job[s].asksPrincipal,
             r = Principal /\ m.state = "malformed" /\ s \notin misled' =>
                 Advertised[s] = {},
             m.state = "principals" /\ s \notin misled' =>
                 m.named \/ m.homeSets = Advertised[s]
      PROVE  IInv' /\ Busy(net'[s]) = Busy(net[s]) /\ job' = job
             /\ \A q \in Sources \ {s} : net'[q] = net[q]
  <2> DEFINE n == [net[s] EXCEPT ![r] = m]
  <2>1. JobInv(s, job[s], n, misled', failures[s])
    BY <1>1, <1>2, ReplyArrives DEF Replies
  <2>2. /\ net' = [net EXCEPT ![s] = n] /\ net'[s] = n
        /\ \A q \in Sources \ {s} : net'[q] = net[q]
        /\ job' = [job EXCEPT ![s] = job[s]] /\ job' = job
        /\ failures' = [failures EXCEPT ![s] = failures[s]]
        /\ net[s][r] = Sent
    BY <1>2 DEF Replies, IInv
  <2>3. Busy(n) = Busy(net[s])
    BY <1>1, <1>2, <2>2 DEF Busy, Idle, Sent, JobInv, Types
  <2> HIDE DEF n
  <2>4. misled' \subseteq Sources
    BY <1>2 DEF IInv
  <2>5. IInv'
    BY <1>2, <2>1, <2>2, <2>4, OneJob
  <2> QED BY <2>2, <2>3, <2>5
\* The messages.
<1>3. /\ \A h \in {{}, Advertised[s]}, b \in BOOLEAN :
             LET m == Principals200(h, b)
             IN  /\ m \in Expected(s, Principal) /\ m.state = "principals"
                 /\ m.homeSets = h /\ m.named = b
      /\ Malformed \in Expected(s, r) /\ Malformed.state = "malformed"
      /\ \A status \in FailCodes :
             Failure(status) \in Expected(s, r) /\ Failure(status).state = "failed"
  <2>1. ASSUME NEW h \in {{}, Advertised[s]}, NEW b \in BOOLEAN
        PROVE  LET m == Principals200(h, b)
               IN  /\ m \in Expected(s, Principal) /\ m.state = "principals"
                   /\ m.homeSets = h /\ m.named = b
    <3>1. Principals200(h, b) \in {Principals200(homeSets, named) :
              homeSets \in {{}, Advertised[s]}, named \in BOOLEAN}
      OBVIOUS
    <3>2. Principals200(h, b) \in Expected(s, Principal)
      BY <3>1 DEF Expected
    <3> QED BY <3>2 DEF Principals200
  <2>2. Malformed \in Expected(s, r) /\ Malformed.state = "malformed"
    BY DEF Malformed, Expected
  <2>3. ASSUME NEW status \in FailCodes
        PROVE  Failure(status) \in Expected(s, r) /\ Failure(status).state = "failed"
    <3>1. Failure(status) \in [state : {"failed"}, status : Nat]
      BY CollectionsFetchAssumption DEF Failure
    <3> QED BY <3>1 DEF Failure, Expected
  <2> QED BY <2>1, <2>2, <2>3
<1>4. CASE r = Principal /\ TellsHomeSets(s)
  <2>1. PICK named \in BOOLEAN :
            /\ named => MayName(s)
            /\ Replies(s, Principal, Principals200(Advertised[s], named))
    BY <1>4 DEF TellsHomeSets
  <2> DEFINE m == Principals200(Advertised[s], named)
  <2>2. /\ m \in Expected(s, r) /\ m.state = "principals"
        /\ m.homeSets = Advertised[s] /\ m.named = named
    BY <1>3, <1>4
  <2>3. misled' = misled /\ Replies(s, r, m)
    BY <1>4, <2>1 DEF TellsHomeSets
  <2> HIDE DEF m
  <2> QED BY <1>2, <2>1, <2>2, <2>3, NamingIsAsked
<1>5. CASE r = Principal /\ NamesPrincipal(s)
  <2> DEFINE m == Principals200({}, TRUE)
  <2>1. /\ m \in Expected(s, r) /\ m.state = "principals" /\ m.named = TRUE
    BY <1>3, <1>5
  <2>2. misled' = misled /\ Replies(s, r, m) /\ job[s].asksPrincipal
    BY <1>5, NamingIsAsked DEF NamesPrincipal
  <2> HIDE DEF m
  <2> QED BY <1>2, <2>1, <2>2
<1>6. CASE r = Principal /\ TellsNothing(s)
  <2>1. PICK m \in {Malformed, Principals200({}, FALSE)} : Replies(s, r, m)
    BY <1>6 DEF TellsNothing
  <2>2. /\ misled \subseteq misled' /\ misled' \subseteq misled \cup {s}
        /\ s \notin misled' => Advertised[s] = {}
    BY <1>6 DEF TellsNothing
  <2>3. /\ m \in Expected(s, r) /\ m.state \in {"malformed", "principals"}
        /\ m.state = "principals" => m.homeSets = {} /\ ~m.named
    BY <1>3, <1>6
  <2> QED BY <1>2, <2>1, <2>2, <2>3
<1>7. CASE r \in Fetches /\ ListsCollections(s, r)
  <2> DEFINE m == Listing(Contents[s][r])
  <2>1. m \in Expected(s, r) /\ m.state = "listing"
    BY <1>7, CollectionsFetchAssumption DEF Expected, Listing
  <2>2. misled' = misled /\ Replies(s, r, m)
    BY <1>7 DEF ListsCollections
  <2> HIDE DEF m
  <2> QED BY <1>2, <2>1, <2>2
<1>8. CASE Fails(s, r)
  <2>1. misled' = misled
    BY <1>8 DEF Fails
  <2>2. ASSUME NEW status \in FailCodes, Replies(s, r, Failure(status))
        PROVE  IInv' /\ Busy(net'[s]) = Busy(net[s]) /\ job' = job
               /\ \A q \in Sources \ {s} : net'[q] = net[q]
    BY <1>2, <1>3, <2>1, <2>2
  <2>3. CASE r \in Fetches /\ Replies(s, r, Malformed)
    BY <1>2, <1>3, <2>1, <2>3, CollectionsFetchAssumption
  <2> QED BY <1>8, <2>2, <2>3 DEF Fails
<1> QED BY <1>4, <1>5, <1>6, <1>7, <1>8 DEF ServerStep

(***************************************************************************)
(* The handler of the request for the principal.                           *)
(***************************************************************************)

LEMMA PrincipalPending ==
    ASSUME NEW s \in Sources, NEW state, NEW n, NEW lost, NEW failed,
           JobInv(s, state, n, lost, failed),
           n[Principal].state \notin {"idle", "sent"}
    PROVE  /\ Busy(n) = {Principal} /\ Fresh(state, {}) /\ failed = {}
           /\ s \in Principals /\ state.started
           /\ state \in JobState /\ n \in [Requests -> Messages]
           /\ n[Principal] \in Expected(s, Principal)
<1>1. Principal \in Requests /\ n[Principal] # Idle
  BY DEF Requests, Idle
<1>2. Principal \in Busy(n)
  BY <1>1 DEF Busy
<1>3. /\ Busy(n) = {Principal} /\ Fresh(state, failed) /\ s \in Principals
      /\ state.started
  BY <1>2 DEF JobInv, Counting
<1> QED BY <1>1, <1>3 DEF JobInv, Types, Fresh

LEMMA StepAfterPrincipal ==
    ASSUME IInv, NEW s \in Sources, NEW homeSets \in {{}, Advertised[s]},
           net[s][Principal].state \notin {"idle", "sent"},
           AfterPrincipal(s, homeSets), misled' = misled,
           s \notin misled => homeSets = Advertised[s]
    PROVE  IInv' /\ job'[s].started /\ job[s].started
           /\ job'[s].results = job[s].results
           /\ Principal \in Busy(net[s]) /\ Busy(net'[s]) \in SUBSET Fetches
           /\ Busy(net'[s]) # {}
<1> DEFINE n == net[s]
           fetches == IF homeSets = {} THEN {Direct} ELSE homeSets
           m == Sends([n EXCEPT ![Principal] = Idle], fetches)
<1>1. JobInv(s, job[s], n, misled, failures[s])
  BY DEF IInv
<1>2. /\ Busy(n) = {Principal} /\ Fresh(job[s], {}) /\ failures[s] = {}
      /\ s \in Principals /\ job[s].started
      /\ job[s] \in JobState /\ n \in [Requests -> Messages]
  BY <1>1, PrincipalPending
<1>3. fetches \in SUBSET Fetches /\ fetches # {}
  BY CollectionsFetchAssumption DEF Fetches
<1>4. s \notin misled => fetches = FetchesOf(s)
  BY <1>2 DEF FetchesOf
<1>5. /\ job' = [job EXCEPT ![s] = DoCollectionsFetch(job[s], fetches)]
      /\ net' = [net EXCEPT ![s] = m]
      /\ failures' = [failures EXCEPT ![s] = {}]
  BY <1>2 DEF AfterPrincipal, IInv
<1> HIDE DEF fetches
<1>6. m = [r \in Requests |-> IF r \in fetches THEN Sent ELSE Idle]
  BY <1>2 DEF Sends, Busy, Requests
<1> HIDE DEF m
<1>7. Rounds(job[s], m)
  <2>1. m[Principal] = Idle /\ Idle.state = "idle"
    BY <1>3, <1>6, CollectionsFetchAssumption DEF Requests, Idle
  <2> QED BY <1>1, <2>1 DEF JobInv, Rounds
<1>8. JobInv(s, DoCollectionsFetch(job[s], fetches), m, misled, {})
  BY <1>2, <1>3, <1>4, <1>6, <1>7, FetchesSent
<1>9. IInv'
  BY <1>5, <1>8, OneJob DEF IInv
<1>10. /\ job'[s].started = job[s].started /\ job'[s].results = job[s].results
       /\ net'[s] = m
  BY <1>2, <1>5 DEF DoCollectionsFetch, JobState, IInv
<1>11. Busy(m) = fetches
  BY <1>3, <1>6 DEF Busy, Requests, Idle, Sent
<1> QED BY <1>2, <1>3, <1>9, <1>10, <1>11

LEMMA StepPrincipalFailed ==
    ASSUME IInv, NEW s \in Sources, NEW status \in Nat,
           net[s][Principal].state \notin {"idle", "sent"},
           PrincipalFailed(s, status), misled' = misled
    PROVE  IInv' /\ job'[s].started /\ job[s].started
           /\ job[s].results = 0 /\ job'[s].results = 1
           /\ Busy(net[s]) = {Principal} /\ Busy(net'[s]) = {}
<1> DEFINE n == net[s]
           state == [job[s] EXCEPT !.error = "ERR_PROBLEM_WITH_REQUEST",
                                   !.latestResponseCode = status,
                                   !.results = 1]
           m == [n EXCEPT ![Principal] = Idle]
<1>1. JobInv(s, job[s], n, misled, failures[s])
  BY DEF IInv
<1>2. /\ Busy(n) = {Principal} /\ Fresh(job[s], {}) /\ failures[s] = {}
      /\ s \in Principals /\ job[s].started
      /\ job[s] \in JobState /\ n \in [Requests -> Messages]
  BY <1>1, PrincipalPending
<1>3. /\ job' = [job EXCEPT ![s] = state]
      /\ net' = [net EXCEPT ![s] = m]
      /\ failures' = [failures EXCEPT ![s] = {Principal}]
  <2>1. job' = [job EXCEPT ![s] = [job[s] EXCEPT
                                !.error = "ERR_PROBLEM_WITH_REQUEST",
                                !.latestResponseCode = status,
                                !.results = job[s].results + 1]]
    BY DEF PrincipalFailed, IInv
  <2>2. job[s].results + 1 = 1
    BY <1>2 DEF Fresh
  <2>3. job' = [job EXCEPT ![s] = state]
    BY <2>1, <2>2
  <2>4. net' = [net EXCEPT ![s] = m]
    BY DEF PrincipalFailed, IInv
  <2>5. failures' = [failures EXCEPT ![s] = {Principal}]
    BY <1>2 DEF PrincipalFailed, IInv
  <2> QED BY <2>3, <2>4, <2>5
<1>4. /\ state \in JobState /\ state.error = "ERR_PROBLEM_WITH_REQUEST"
      /\ state.results = 1 /\ state.started
      /\ ~state.mForceRetryLater /\ state.mSubJobCount = 0
      /\ state.collections = NoCollections
      /\ state.rounds = job[s].rounds
      /\ state.asksPrincipal = job[s].asksPrincipal
  BY <1>2, ErrorNumbers DEF JobState, Fresh
<1>5. \A r \in Requests : m[r] = Idle
  BY <1>2 DEF Busy, Requests
<1>6. m \in [Requests -> Messages] /\ Principal \in Requests
  BY <1>2 DEF Messages, Requests
<1> HIDE DEF state, m
<1>7. Busy(m) = {} /\ Fetching(m) = {}
  BY <1>5 DEF Busy, Fetching
<1>8. Types(s, state, m, {Principal})
  BY <1>4, <1>5, <1>6 DEF Types, Expected, Requests
<1>9. Counting(s, state, m, {Principal})
  BY <1>4, <1>7, FetchesAreFinite DEF Counting
<1>10. Rounds(state, m)
  <2>1. m[Principal] = Idle /\ Idle.state = "idle"
    BY <1>5, <1>6 DEF Idle
  <2> QED BY <1>1, <1>4, <2>1 DEF JobInv, Rounds
<1>11. Outcome(state, m, {Principal})
  <2>1. {Principal} \cap HomeSets = {}
    BY CollectionsFetchAssumption DEF Fetches
  <2> QED BY <1>4, <2>1, ErrorNumbers DEF Outcome
<1>12. Complete1(s, state, m, misled)
  <2>1. m[Principal] = Idle /\ Idle.state = "idle"
    BY <1>5, <1>6 DEF Idle
  <2> QED BY <1>4, <2>1, ErrorNumbers DEF Complete1
<1>13. JobInv(s, state, m, misled, {Principal})
  BY <1>8, <1>9, <1>10, <1>11, <1>12 DEF JobInv
<1>14. IInv'
  BY <1>3, <1>13, OneJob DEF IInv
<1> QED BY <1>2, <1>3, <1>4, <1>7, <1>14 DEF IInv, Fresh

LEMMA StepNextRound ==
    ASSUME IInv, NEW s \in Sources,
           net[s][Principal].state = "principals", net[s][Principal].named,
           NextRound(s), misled' = misled
    PROVE  IInv' /\ job'[s].started /\ job[s].started
           /\ job'[s].results = job[s].results
           /\ Busy(net[s]) = {Principal} /\ Busy(net'[s]) = {Principal}
<1> DEFINE n == net[s]
           state == FetchHomeSets(job[s], TRUE)
           m == [n EXCEPT ![Principal] = Sent]
<1>1. JobInv(s, job[s], n, misled, failures[s])
  BY DEF IInv
<1>2. /\ Busy(n) = {Principal} /\ Fresh(job[s], {}) /\ failures[s] = {}
      /\ s \in Principals /\ job[s].started
      /\ job[s] \in JobState /\ n \in [Requests -> Messages]
  BY <1>1, PrincipalPending
<1>3. /\ job' = [job EXCEPT ![s] = state] /\ net' = [net EXCEPT ![s] = m]
      /\ failures' = [failures EXCEPT ![s] = {}]
  BY <1>2 DEF NextRound, IInv
<1>4. job[s].rounds <= 1 /\ job[s].rounds \in Nat
  BY <1>1, <1>2 DEF JobInv, Rounds, JobState
<1>5. TRUE \in BOOLEAN
  OBVIOUS
<1>6. /\ state \in JobState /\ state.rounds = job[s].rounds + 1
      /\ ~state.asksPrincipal /\ state.started = job[s].started
      /\ Fresh(state, {})
  BY <1>2, <1>5, HomeSetsAsked
<1> HIDE DEF state
<1>7. m = [r \in Requests |-> IF r = Principal THEN Sent ELSE n[r]]
  BY <1>2
<1> HIDE DEF m
<1>8. JobInv(s, state, m, misled, {})
  <2>1. state.started /\ state.rounds <= 2
    BY <1>2, <1>4, <1>6
  <2>2. Busy(n) \subseteq {Principal}
    BY <1>2
  <2> QED BY <1>2, <1>6, <1>7, <2>1, <2>2, PrincipalSent
<1>9. IInv'
  BY <1>3, <1>8, OneJob DEF IInv
<1>10. Busy(m) = {Principal}
  BY <1>2, <1>7 DEF Busy, Idle, Sent
<1>11. job'[s] = state /\ net'[s] = m
  BY <1>3 DEF IInv
<1>12. state.results = job[s].results
  BY <1>2, <1>6 DEF Fresh
<1> QED BY <1>2, <1>6, <1>9, <1>10, <1>11, <1>12

(***************************************************************************)
(* The handler of a fetch.                                                 *)
(***************************************************************************)

\* The requests once the answer of a fetch was consumed; those that failed.
Consumed(n, f) == [n EXCEPT ![f] = Idle]
FailedAfter(n, f, failed) ==
    IF n[f].state = "listing" THEN failed ELSE failed \cup {f}

\* A fetch was answered, and is not in flight any more.
LEMMA FetchPending ==
    ASSUME NEW s \in Sources, NEW state, NEW n, NEW lost, NEW failed,
           JobInv(s, state, n, lost, failed),
           NEW f \in Fetches, n[f].state \in {"failed", "malformed", "listing"}
    PROVE  /\ f \in Busy(n) /\ Principal \notin Busy(n) /\ state.started
           /\ state.results = 0
           /\ n[f] \in Expected(s, f) /\ f \in Requests /\ f # Principal
           /\ Consumed(n, f) \in [Requests -> Messages]
           /\ \A r \in Requests : Consumed(n, f)[r] = IF r = f THEN Idle ELSE n[r]
           /\ Busy(Consumed(n, f)) = Busy(n) \ {f} /\ Fetching(Consumed(n, f)) = Busy(Consumed(n, f))
           /\ Busy(Consumed(n, f)) \in SUBSET Fetches
           /\ state.mSubJobCount - 1 = Cardinality(Fetching(Consumed(n, f)))
           /\ state.mSubJobCount - 1 \in Nat
           /\ state.mSubJobCount = 1 <=> Busy(Consumed(n, f)) = {}
<1> DEFINE m == Consumed(n, f)
<1>1. /\ f \in Requests /\ f # Principal /\ n[f] # Idle /\ Idle \in Messages
  BY CollectionsFetchAssumption DEF Requests, Idle, Messages
<1>2. n \in [Requests -> Messages] /\ n[f] \in Expected(s, f)
  BY <1>1 DEF JobInv, Types
<1>3. f \in Busy(n)
  BY <1>1 DEF Busy
<1>4. Principal \notin Busy(n) /\ state.started /\ state.results = 0
  BY <1>1, <1>3 DEF JobInv, Counting
<1>5. /\ m \in [Requests -> Messages]
      /\ \A r \in Requests : m[r] = IF r = f THEN Idle ELSE n[r]
  BY <1>1, <1>2 DEF Consumed
<1> HIDE DEF m
<1>6. Busy(m) = Busy(n) \ {f}
  BY <1>5 DEF Busy
<1>7. Fetching(n) = Busy(n) /\ Fetching(m) = Busy(m) /\ Busy(m) \in SUBSET Fetches
  BY <1>4, <1>6 DEF Fetching, Busy, Requests
<1>8. IsFiniteSet(Fetching(n)) /\ Cardinality(Fetching(n)) \in Nat
  BY FetchesAreFinite DEF Fetching
<1>9. Cardinality(Fetching(m)) = Cardinality(Fetching(n)) - 1
  <2>1. f \in Fetching(n) /\ Fetching(m) = Fetching(n) \ {f}
    BY <1>3, <1>6, <1>7
  <2>2. Cardinality(Fetching(n) \ {f}) = Cardinality(Fetching(n)) - 1
    BY <1>8, <2>1, FS_RemoveElement
  <2> QED BY <2>1, <2>2
<1>10. /\ Cardinality(Fetching(m)) \in Nat
       /\ Cardinality(Fetching(m)) = 0 <=> Fetching(m) = {}
  BY <1>7, FetchesAreFinite
<1>11. state.mSubJobCount = Cardinality(Fetching(n))
  BY DEF JobInv, Counting
<1>12. /\ state.mSubJobCount - 1 = Cardinality(Fetching(m))
       /\ state.mSubJobCount - 1 \in Nat
  BY <1>9, <1>10, <1>11
<1>13. state.mSubJobCount = 1 <=> Cardinality(Fetching(m)) = 0
  BY <1>8, <1>9, <1>11
<1>14. state.mSubJobCount = 1 <=> Busy(m) = {}
  BY <1>7, <1>10, <1>13
<1> QED BY <1>1, <1>2, <1>3, <1>4, <1>5, <1>6, <1>7, <1>12, <1>14 DEF m

\* What stays of a job's state when an answer is read.
SameProgress(state, read) ==
    /\ read \in JobState
    /\ read.started = state.started /\ read.asksPrincipal = state.asksPrincipal
    /\ read.rounds = state.rounds /\ read.mSubJobCount = state.mSubJobCount
    /\ read.results = state.results

LEMMA ErrorRecorded ==
    ASSUME NEW state \in JobState, NEW f \in Fetches, NEW failed,
           NEW n, Outcome(state, n, failed),
           NEW number \in {"ERR_PROBLEM_WITH_REQUEST", "ERR_COLLECTIONFETCH"},
           NEW status \in Nat,
           number = "ERR_COLLECTIONFETCH" => status = state.latestResponseCode
    PROVE  LET read == RecordError(state, f, number, status)
           IN  /\ SameProgress(state, read)
               /\ read.error # NO_ERR
               /\ read.mForceRetryLater <=> (failed \cup {f}) \cap HomeSets # {}
               /\ read.latestResponseCode # 0 =>
                      read.error = "ERR_PROBLEM_WITH_REQUEST"
<1> DEFINE force == state.mForceRetryLater \/ f \in HomeSets
           first == IF state.error = NO_ERR THEN number ELSE state.error
           code == IF state.error = NO_ERR THEN status ELSE state.latestResponseCode
           read == [state EXCEPT !.mForceRetryLater = force, !.error = first,
                                 !.latestResponseCode = code]
<1>1. RecordError(state, f, number, status) = read
  BY DEF RecordError
<1>2. force \in BOOLEAN
  OBVIOUS
<1>3. first \in ErrorNumber /\ code \in Nat /\ first # NO_ERR
  BY ErrorNumbers DEF JobState
<1>4. code # 0 => first = "ERR_PROBLEM_WITH_REQUEST"
  BY ErrorNumbers DEF Outcome
<1>5. force <=> (failed \cup {f}) \cap HomeSets # {}
  <2>1. (failed \cup {f}) \cap HomeSets # {} <=>
            failed \cap HomeSets # {} \/ f \in HomeSets
    OBVIOUS
  <2>2. state.mForceRetryLater <=> failed \cap HomeSets # {}
    BY DEF Outcome
  <2> QED BY <2>1, <2>2
<1> HIDE DEF force, first, code
<1>6. /\ SameProgress(state, read)
      /\ read.error = first /\ read.mForceRetryLater = force
      /\ read.latestResponseCode = code
  BY <1>2, <1>3 DEF SameProgress, JobState
<1> HIDE DEF read
<1>7. read.mForceRetryLater <=> (failed \cup {f}) \cap HomeSets # {}
  BY <1>5, <1>6
<1> QED BY <1>1, <1>3, <1>4, <1>6, <1>7

\* The list grows by what is new, while no error is known.
LEMMA CollectionsAdded ==
    ASSUME NEW s, NEW state \in JobState, NEW listed
    PROVE  LET read == AddCollections(s, state, listed)
           IN  /\ SameProgress(state, read)
               /\ read.error = state.error
               /\ read.latestResponseCode = state.latestResponseCode
               /\ read.mForceRetryLater = state.mForceRetryLater
               /\ state.error = NO_ERR /\ state.discovered = state.collections =>
                    /\ read.discovered = read.collections
                    /\ \A c \in Collections :
                          read.collections[c] =
                              IF /\ c \in listed /\ state.collections[c] = 0
                                 /\ IsCollection(s, c)
                              THEN state.collections[c] + 1
                              ELSE state.collections[c]
<1> DEFINE new == {c \in listed : /\ state.error = NO_ERR
                                  /\ state.collections[c] = 0
                                  /\ IsCollection(s, c)}
           Add(list) == [c \in Collections |->
                            IF c \in new THEN list[c] + 1 ELSE list[c]]
           list1 == Add(state.collections)
           list2 == Add(state.discovered)
           read == [state EXCEPT !.collections = list1, !.discovered = list2]
<1>1. AddCollections(s, state, listed) = read
  BY DEF AddCollections
<1>2. /\ state.collections \in [Collections -> Nat]
      /\ state.discovered \in [Collections -> Nat]
  BY DEF JobState
<1>3. list1 \in [Collections -> Nat] /\ list2 \in [Collections -> Nat]
  BY <1>2
<1>4. state.discovered = state.collections => list2 = list1
  OBVIOUS
<1>5. state.error = NO_ERR => \A c \in Collections : list1[c] =
          IF c \in listed /\ state.collections[c] = 0 /\ IsCollection(s, c)
          THEN state.collections[c] + 1 ELSE state.collections[c]
  OBVIOUS
<1> HIDE DEF list1, list2
<1>6. /\ SameProgress(state, read)
      /\ read.error = state.error
      /\ read.latestResponseCode = state.latestResponseCode
      /\ read.mForceRetryLater = state.mForceRetryLater
      /\ read.collections = list1 /\ read.discovered = list2
  BY <1>3 DEF SameProgress, JobState
<1> HIDE DEF read
<1> QED BY <1>1, <1>4, <1>5, <1>6

\* What the next answer adds to the list of those before.
LEMMA ListedGrows ==
    ASSUME NEW s, NEW n, NEW m, NEW f \in FetchesOf(s), f \in Busy(n),
           Busy(m) = Busy(n) \ {f}
    PROVE  \A c : c \in Listed(s, m) <=>
              c \in Listed(s, n) \/ (c \in Contents[s][f] /\ IsCollection(s, c))
BY DEF Listed

LEMMA Counted ==
    ASSUME NEW read \in JobState, read.mSubJobCount - 1 \in Nat, read.results = 0
    PROVE  LET next == SubjobFinished(read)
           IN  /\ next \in JobState
               /\ next.mSubJobCount = read.mSubJobCount - 1
               /\ next.started = read.started /\ next.rounds = read.rounds
               /\ next.asksPrincipal = read.asksPrincipal
               /\ next.error = read.error
               /\ next.latestResponseCode = read.latestResponseCode
               /\ next.mForceRetryLater = read.mForceRetryLater
               /\ next.discovered = read.discovered
               /\ next.results = IF read.mSubJobCount = 1 THEN 1 ELSE 0
               /\ next.collections =
                      IF read.mSubJobCount = 1 /\ read.error # NO_ERR
                      THEN NoCollections ELSE read.collections
<1> DEFINE count == read.mSubJobCount - 1
           list == IF read.mSubJobCount = 1 /\ read.error # NO_ERR
                   THEN NoCollections ELSE read.collections
           results == IF read.mSubJobCount = 1 THEN 1 ELSE 0
           next == [read EXCEPT !.mSubJobCount = count, !.collections = list,
                                !.results = results]
<1>1. SubjobFinished(read) = next
  <2>1. (IF read.mSubJobCount = 1 THEN read.results + 1 ELSE read.results) = results
    OBVIOUS
  <2>2. SubjobFinished(read) =
          [read EXCEPT !.mSubJobCount = count, !.collections = list,
             !.results = IF read.mSubJobCount = 1 THEN read.results + 1
                                                  ELSE read.results]
    BY DEF SubjobFinished
  <2> QED BY <2>1, <2>2
<1>2. count \in Nat /\ results \in Nat /\ list \in [Collections -> Nat]
  BY DEF JobState, NoCollections
<1> HIDE DEF count, list, results
<1>3. /\ next \in JobState /\ next.mSubJobCount = count
      /\ next.started = read.started /\ next.rounds = read.rounds
      /\ next.asksPrincipal = read.asksPrincipal
      /\ next.error = read.error
      /\ next.latestResponseCode = read.latestResponseCode
      /\ next.mForceRetryLater = read.mForceRetryLater
      /\ next.discovered = read.discovered
      /\ next.results = results /\ next.collections = list
  BY <1>2 DEF JobState
<1> HIDE DEF next
<1> QED BY <1>1, <1>3 DEF count, list, results

\* The error state and the list after one more answer was read.
LEMMA AnswerRead ==
    ASSUME NEW s \in Sources, NEW state, NEW n, NEW lost, NEW failed,
           JobInv(s, state, n, lost, failed),
           NEW f \in Fetches, n[f].state \in {"failed", "malformed", "listing"}
    PROVE  LET read == AfterFetch(s, state, f, n[f])
           IN  /\ SameProgress(state, read)
               /\ read.error = NO_ERR <=> FailedAfter(n, f, failed) = {}
               /\ read.mForceRetryLater <=> FailedAfter(n, f, failed) \cap HomeSets # {}
               /\ read.latestResponseCode # 0 =>
                      read.error = "ERR_PROBLEM_WITH_REQUEST"
               /\ s \notin lost /\ read.error = NO_ERR =>
                      /\ read.discovered = read.collections
                      /\ read.collections = [c \in Collections |->
                             IF c \in Listed(s, Consumed(n, f)) THEN 1 ELSE 0]
<1> DEFINE read == AfterFetch(s, state, f, n[f])
           m == Consumed(n, f)
           after == FailedAfter(n, f, failed)
<1>1. /\ f \in Busy(n) /\ Principal \notin Busy(n) /\ state.started
      /\ n[f] \in Expected(s, f) /\ f \in Requests
      /\ Busy(m) = Busy(n) \ {f}
  BY FetchPending
<1> HIDE DEF m
<1>2. /\ state \in JobState /\ Outcome(state, n, failed)
      /\ Complete1(s, state, n, lost)
  BY DEF JobInv, Types
<1>3. CASE n[f].state = "failed"
  <2>1. read = RecordError(state, f, "ERR_PROBLEM_WITH_REQUEST", n[f].status)
    BY <1>3 DEF AfterFetch
  <2>2. n[f].status \in Nat
    BY <1>1, <1>3, MessageStates
  <2>3. /\ SameProgress(state, read) /\ read.error # NO_ERR
        /\ read.mForceRetryLater <=> (failed \cup {f}) \cap HomeSets # {}
        /\ read.latestResponseCode # 0 => read.error = "ERR_PROBLEM_WITH_REQUEST"
    <3> DEFINE number == "ERR_PROBLEM_WITH_REQUEST"
    <3>1. number \in {"ERR_PROBLEM_WITH_REQUEST", "ERR_COLLECTIONFETCH"}
          /\ number # "ERR_COLLECTIONFETCH"
      BY ErrorNumbers
    <3> HIDE DEF number
    <3>2. LET r == RecordError(state, f, number, n[f].status)
          IN  /\ SameProgress(state, r) /\ r.error # NO_ERR
              /\ r.mForceRetryLater <=> (failed \cup {f}) \cap HomeSets # {}
              /\ r.latestResponseCode # 0 => r.error = "ERR_PROBLEM_WITH_REQUEST"
      BY <1>2, <2>2, <3>1, ErrorRecorded
    <3> QED BY <2>1, <3>2 DEF number
  <2>4. after = failed \cup {f}
    BY <1>3 DEF FailedAfter
  <2> HIDE DEF read
  <2>5. LET r == read
        IN  /\ SameProgress(state, r)
            /\ r.error = NO_ERR <=> after = {}
            /\ r.mForceRetryLater <=> after \cap HomeSets # {}
            /\ r.latestResponseCode # 0 => r.error = "ERR_PROBLEM_WITH_REQUEST"
            /\ r.error # NO_ERR
    BY <2>3, <2>4
  <2> QED BY <2>5 DEF read
<1>4. CASE n[f].state = "malformed"
  <2> DEFINE number == "ERR_COLLECTIONFETCH"
             code == state.latestResponseCode
  <2>1. read = RecordError(state, f, number, code)
    BY <1>4 DEF AfterFetch
  <2>2. code \in Nat
    BY <1>2 DEF JobState
  <2>3. number \in {"ERR_PROBLEM_WITH_REQUEST", "ERR_COLLECTIONFETCH"}
    OBVIOUS
  <2>4. code = state.latestResponseCode
    OBVIOUS
  <2> HIDE DEF number, code, read
  <2>5. /\ SameProgress(state, read) /\ read.error # NO_ERR
        /\ read.mForceRetryLater <=> (failed \cup {f}) \cap HomeSets # {}
        /\ read.latestResponseCode # 0 => read.error = "ERR_PROBLEM_WITH_REQUEST"
    BY <1>2, <2>1, <2>2, <2>3, <2>4, ErrorRecorded
  <2>6. after = failed \cup {f}
    BY <1>4 DEF FailedAfter
  <2>7. /\ read.error = NO_ERR <=> after = {}
        /\ read.mForceRetryLater <=> after \cap HomeSets # {}
    BY <2>5, <2>6
  <2> QED BY <2>5, <2>7 DEF read
<1>5. CASE n[f].state = "listing"
  <2> DEFINE listed == n[f].collections
  <2>1. read = AddCollections(s, state, listed)
    BY <1>5 DEF AfterFetch
  <2>2. listed = Contents[s][f]
    BY <1>1, <1>5, MessageStates
  <2> HIDE DEF listed, read
  <2>3. /\ SameProgress(state, read)
        /\ read.error = state.error
        /\ read.latestResponseCode = state.latestResponseCode
        /\ read.mForceRetryLater = state.mForceRetryLater
        /\ (state.error = NO_ERR /\ state.discovered = state.collections) =>
             /\ read.discovered = read.collections
             /\ \A c \in Collections :
                   read.collections[c] =
                       IF /\ c \in listed /\ state.collections[c] = 0
                          /\ IsCollection(s, c)
                       THEN state.collections[c] + 1
                       ELSE state.collections[c]
    <3>1. LET r == AddCollections(s, state, listed)
          IN  /\ SameProgress(state, r)
              /\ r.error = state.error
              /\ r.latestResponseCode = state.latestResponseCode
              /\ r.mForceRetryLater = state.mForceRetryLater
              /\ (state.error = NO_ERR /\ state.discovered = state.collections) =>
                   /\ r.discovered = r.collections
                   /\ \A c \in Collections :
                         r.collections[c] =
                             IF /\ c \in listed /\ state.collections[c] = 0
                                /\ IsCollection(s, c)
                             THEN state.collections[c] + 1
                             ELSE state.collections[c]
      BY <1>2, CollectionsAdded
    <3> QED BY <2>1, <3>1
  <2>4. after = failed
    BY <1>5 DEF FailedAfter
  <2>5. ASSUME s \notin lost, read.error = NO_ERR
        PROVE  /\ read.discovered = read.collections
               /\ read.collections = [c \in Collections |->
                      IF c \in Listed(s, m) THEN 1 ELSE 0]
    <3>1. /\ Busy(n) \subseteq FetchesOf(s)
          /\ state.discovered = state.collections
          /\ state.collections = [c \in Collections |->
                                     IF c \in Listed(s, n) THEN 1 ELSE 0]
      BY <1>1, <1>2, <2>3, <2>5 DEF Complete1
    <3>2. \A c : c \in Listed(s, m) <=>
              c \in Listed(s, n) \/ (c \in listed /\ IsCollection(s, c))
      BY <1>1, <2>2, <3>1, ListedGrows
    <3>3. read.collections \in [Collections -> Nat]
      BY <2>3 DEF SameProgress, JobState
    <3>4. \A c \in Collections :
              read.collections[c] = IF c \in Listed(s, m) THEN 1 ELSE 0
      <4> SUFFICES ASSUME NEW c \in Collections
                   PROVE  read.collections[c] = IF c \in Listed(s, m) THEN 1 ELSE 0
        OBVIOUS
      <4>1. state.collections[c] = IF c \in Listed(s, n) THEN 1 ELSE 0
        BY <3>1
      <4>2. read.collections[c] = IF /\ c \in listed /\ state.collections[c] = 0
                                     /\ IsCollection(s, c)
                                  THEN state.collections[c] + 1
                                  ELSE state.collections[c]
        BY <2>3, <2>5, <3>1
      <4>3. c \in Listed(s, m) <=>
                c \in Listed(s, n) \/ (c \in listed /\ IsCollection(s, c))
        BY <3>2
      <4> QED BY <4>1, <4>2, <4>3
    <3> QED BY <2>3, <2>5, <3>1, <3>3, <3>4
  <2>6. /\ read.error = NO_ERR <=> after = {}
        /\ read.mForceRetryLater <=> after \cap HomeSets # {}
        /\ read.latestResponseCode # 0 => read.error = "ERR_PROBLEM_WITH_REQUEST"
    BY <1>2, <2>3, <2>4 DEF Outcome
  <2> HIDE DEF after
  <2> QED BY <2>3, <2>5, <2>6 DEF read, m, after
<1> QED BY <1>3, <1>4, <1>5 DEF m

LEMMA StepFetchFinished ==
    ASSUME IInv, NEW s \in Sources, NEW f \in Fetches,
           CollectionsFetchFinished(s, f)
    PROVE  /\ IInv' /\ job'[s].started /\ job[s].started
           /\ f \in Busy(net[s]) /\ Busy(net'[s]) = Busy(net[s]) \ {f}
           /\ job[s].results = 0
           /\ job'[s].results = IF Busy(net'[s]) = {} THEN 1 ELSE 0
           /\ \A q \in Sources \ {s} : job'[q] = job[q] /\ net'[q] = net[q]
<1> DEFINE n == net[s]
           m == Consumed(n, f)
           reply == n[f]
           after == FailedAfter(n, f, failures[s])
           read == AfterFetch(s, job[s], f, reply)
           next == SubjobFinished(read)
<1>1. /\ reply.state \in {"failed", "malformed", "listing"}
      /\ job' = [job EXCEPT ![s] = next] /\ net' = [net EXCEPT ![s] = m]
      /\ failures' = [failures EXCEPT ![s] = after] /\ misled' = misled
  BY DEF CollectionsFetchFinished, IInv, Consumed, FailedAfter
<1>2. JobInv(s, job[s], n, misled, failures[s])
  BY DEF IInv
<1>3. /\ f \in Busy(n) /\ Principal \notin Busy(n) /\ job[s].started
      /\ job[s].results = 0
      /\ n[f] \in Expected(s, f) /\ f \in Requests /\ f # Principal
      /\ m \in [Requests -> Messages]
      /\ \A r \in Requests : m[r] = IF r = f THEN Idle ELSE n[r]
      /\ Busy(m) = Busy(n) \ {f} /\ Fetching(m) = Busy(m)
      /\ job[s].mSubJobCount - 1 = Cardinality(Fetching(m))
      /\ job[s].mSubJobCount - 1 \in Nat
      /\ job[s].mSubJobCount = 1 <=> Busy(m) = {}
  <2> HIDE DEF n, after, read, next
  <2>1. n[f].state \in {"failed", "malformed", "listing"}
    BY <1>1
  <2> QED BY <1>2, <2>1, FetchPending
<1>4. /\ SameProgress(job[s], read)
      /\ read.error = NO_ERR <=> after = {}
      /\ read.mForceRetryLater <=> after \cap HomeSets # {}
      /\ read.latestResponseCode # 0 => read.error = "ERR_PROBLEM_WITH_REQUEST"
      /\ s \notin misled /\ read.error = NO_ERR =>
             /\ read.discovered = read.collections
             /\ read.collections = [c \in Collections |->
                    IF c \in Listed(s, m) THEN 1 ELSE 0]
  <2>1. /\ n[f].state \in {"failed", "malformed", "listing"}
        /\ read = AfterFetch(s, job[s], f, n[f])
    BY <1>1
  <2> HIDE DEF n, read, next
  <2>2. LET r == AfterFetch(s, job[s], f, n[f])
        IN  /\ SameProgress(job[s], r)
            /\ r.error = NO_ERR <=> after = {}
            /\ r.mForceRetryLater <=> after \cap HomeSets # {}
            /\ r.latestResponseCode # 0 =>
                   r.error = "ERR_PROBLEM_WITH_REQUEST"
            /\ s \notin misled /\ r.error = NO_ERR =>
                   /\ r.discovered = r.collections
                   /\ r.collections = [c \in Collections |->
                          IF c \in Listed(s, m) THEN 1 ELSE 0]
    BY <1>2, <2>1, AnswerRead
  <2> HIDE DEF m, after
  <2> QED BY <2>1, <2>2
<1>5. job[s] \in JobState /\ failures[s] \subseteq Requests
  BY <1>2 DEF JobInv, Types
<1>6. after \subseteq Requests
  BY <1>3, <1>5 DEF after, FailedAfter
<1>7. Principal \in Requests /\ n[Principal] = Idle /\ m[Principal] = Idle
      /\ Idle.state = "idle"
  BY <1>3 DEF Busy, Requests, Idle
<1> HIDE DEF after, read, m
<1>8. /\ next \in JobState
      /\ next.mSubJobCount = job[s].mSubJobCount - 1
      /\ next.started /\ next.rounds = job[s].rounds
      /\ next.asksPrincipal = job[s].asksPrincipal
      /\ next.error = read.error
      /\ next.latestResponseCode = read.latestResponseCode
      /\ next.mForceRetryLater = read.mForceRetryLater
      /\ next.discovered = read.discovered
      /\ next.results = IF job[s].mSubJobCount = 1 THEN 1 ELSE 0
      /\ next.collections =
             IF job[s].mSubJobCount = 1 /\ read.error # NO_ERR
             THEN NoCollections ELSE read.collections
  <2>1. /\ read \in JobState /\ read.mSubJobCount = job[s].mSubJobCount
        /\ read.results = 0 /\ read.started /\ read.rounds = job[s].rounds
        /\ read.asksPrincipal = job[s].asksPrincipal
    BY <1>3, <1>4 DEF SameProgress
  <2>2. read.mSubJobCount - 1 \in Nat
    BY <1>3, <2>1
  <2>3. LET done == SubjobFinished(read)
        IN  /\ done \in JobState
            /\ done.mSubJobCount = read.mSubJobCount - 1
            /\ done.started = read.started /\ done.rounds = read.rounds
            /\ done.asksPrincipal = read.asksPrincipal
            /\ done.error = read.error
            /\ done.latestResponseCode = read.latestResponseCode
            /\ done.mForceRetryLater = read.mForceRetryLater
            /\ done.discovered = read.discovered
            /\ done.results = IF read.mSubJobCount = 1 THEN 1 ELSE 0
            /\ done.collections =
                   IF read.mSubJobCount = 1 /\ read.error # NO_ERR
                   THEN NoCollections ELSE read.collections
    BY <2>1, <2>2, Counted
  <2> QED BY <2>1, <2>3
<1> HIDE DEF next
<1>9. next.results = IF Busy(m) = {} THEN 1 ELSE 0
  BY <1>3, <1>8
<1>10. Types(s, next, m, after)
  <2>1. \A r \in Requests : m[r] \in Expected(s, r)
    BY <1>2, <1>3 DEF JobInv, Types, Expected
  <2> QED BY <1>3, <1>6, <1>8, <2>1 DEF Types
<1>11. Counting(s, next, m, after)
  BY <1>3, <1>8, <1>9 DEF Counting
<1>12. Rounds(next, m)
  BY <1>2, <1>7, <1>8 DEF JobInv, Rounds
<1>13. Outcome(next, m, after)
  <2>1. next.results > 0 => job[s].mSubJobCount = 1
    BY <1>8
  <2>2. next.results > 0 /\ next.error # NO_ERR => next.collections = NoCollections
    BY <1>8, <2>1
  <2> QED BY <1>4, <1>8, <2>2 DEF Outcome
<1>14. Complete1(s, next, m, misled)
  <2>1. s \notin misled /\ next.error = NO_ERR =>
            /\ Busy(m) \subseteq FetchesOf(s)
            /\ next.discovered = next.collections
            /\ next.collections = [c \in Collections |->
                   IF c \in Listed(s, m) THEN 1 ELSE 0]
    <3> SUFFICES ASSUME s \notin misled, next.error = NO_ERR
                 PROVE  /\ Busy(m) \subseteq FetchesOf(s)
                        /\ next.discovered = next.collections
                        /\ next.collections = [c \in Collections |->
                               IF c \in Listed(s, m) THEN 1 ELSE 0]
      OBVIOUS
    <3>1. job[s].error = NO_ERR
      <4>1. failures[s] = {}
        BY <1>4, <1>8 DEF after, FailedAfter
      <4> QED BY <1>2, <4>1 DEF JobInv, Outcome
    <3>2. Busy(n) \subseteq FetchesOf(s)
      BY <1>2, <1>3, <3>1 DEF JobInv, Complete1
    <3> QED BY <1>3, <1>4, <1>8, <3>2
  <2> QED BY <1>7, <2>1 DEF Complete1
<1>15. JobInv(s, next, m, misled, after)
  BY <1>10, <1>11, <1>12, <1>13, <1>14 DEF JobInv
<1>16. IInv'
  <2>1. misled' \subseteq Sources /\ \A q \in Sources \ {s} : q \in misled' <=> q \in misled
    BY <1>1 DEF IInv
  <2> QED BY <1>1, <1>15, <2>1, OneJob
<1>17. /\ job'[s] = next /\ net'[s] = m
       /\ \A q \in Sources \ {s} : job'[q] = job[q] /\ net'[q] = net[q]
  BY <1>1 DEF IInv
<1> HIDE DEF n
<1>18. /\ job'[s].started /\ Busy(net'[s]) = Busy(n) \ {f}
       /\ job'[s].results = IF Busy(net'[s]) = {} THEN 1 ELSE 0
  BY <1>3, <1>8, <1>9, <1>17
<1> QED BY <1>3, <1>16, <1>17, <1>18 DEF n

LEMMA StepPrincipalFinished ==
    ASSUME IInv, NEW s \in Sources, PrincipalFinished(s)
    PROVE  /\ IInv' /\ job'[s].started /\ job[s].started
           /\ Busy(net[s]) = {Principal} /\ job[s].results = 0
           /\ job'[s].results = IF Busy(net'[s]) = {} THEN 1 ELSE 0
           /\ \A q \in Sources \ {s} : job'[q] = job[q] /\ net'[q] = net[q]
<1> DEFINE n == net[s]
           reply == n[Principal]
<1>1. JobInv(s, job[s], n, misled, failures[s]) /\ misled' = misled
  BY DEF IInv, PrincipalFinished
<1>2. reply.state \in {"failed", "malformed", "principals"}
      /\ reply.state \notin {"idle", "sent"}
  BY DEF PrincipalFinished
<1>3. /\ Busy(n) = {Principal} /\ Fresh(job[s], {}) /\ reply \in Expected(s, Principal)
      /\ job[s].results = 0
  BY <1>1, <1>2, PrincipalPending DEF Fresh
<1>4. Principal \in Requests
  BY DEF Requests
<1>5. /\ reply.state = "failed" => reply.status \in Nat
      /\ reply.state = "principals" =>
            reply.homeSets \in {{}, Advertised[s]} /\ reply.named \in BOOLEAN
  BY <1>3, <1>4, MessageStates
<1>6. CASE reply.state = "failed" /\ PrincipalFailed(s, reply.status)
  <2> DEFINE status == reply.status
  <2>1. status \in Nat /\ PrincipalFailed(s, status)
    BY <1>5, <1>6
  <2> HIDE DEF status
  <2>2. /\ IInv' /\ job'[s].started /\ job[s].started
        /\ job'[s].results = 1 /\ Busy(net'[s]) = {}
    BY <1>1, <1>2, <2>1, StepPrincipalFailed
  <2>3. \A q \in Sources \ {s} : job'[q] = job[q] /\ net'[q] = net[q]
    BY <2>1 DEF PrincipalFailed, IInv
  <2> QED BY <1>3, <2>2, <2>3
<1>7. ASSUME NEW homeSets \in {{}, Advertised[s]}, AfterPrincipal(s, homeSets),
             s \notin misled => homeSets = Advertised[s]
      PROVE  /\ IInv' /\ job'[s].started /\ job[s].started
             /\ Busy(net[s]) = {Principal} /\ job[s].results = 0
             /\ job'[s].results = IF Busy(net'[s]) = {} THEN 1 ELSE 0
             /\ \A q \in Sources \ {s} : job'[q] = job[q] /\ net'[q] = net[q]
  <2>1. /\ IInv' /\ job'[s].started /\ job[s].started
        /\ job'[s].results = job[s].results /\ Busy(net'[s]) # {}
    BY <1>1, <1>2, <1>7, StepAfterPrincipal
  <2>2. \A q \in Sources \ {s} : job'[q] = job[q] /\ net'[q] = net[q]
    BY <1>7 DEF AfterPrincipal, IInv
  <2> QED BY <1>3, <2>1, <2>2
<1>8. CASE reply.state = "malformed" /\ AfterPrincipal(s, {})
  <2>1. s \notin misled => {} = Advertised[s]
    BY <1>1, <1>8 DEF JobInv, Complete1
  <2> QED BY <1>7, <1>8, <2>1
<1>9. CASE /\ reply.state = "principals"
           /\ reply.homeSets # {} \/ ~reply.named
           /\ AfterPrincipal(s, reply.homeSets)
  <2>1. s \notin misled => reply.homeSets = Advertised[s]
    BY <1>1, <1>5, <1>9 DEF JobInv, Complete1
  <2> QED BY <1>5, <1>7, <1>9, <2>1
<1>10. CASE /\ reply.state = "principals" /\ reply.named /\ NextRound(s)
  <2>1. /\ IInv' /\ job'[s].started /\ job[s].started
        /\ job'[s].results = job[s].results /\ Busy(net'[s]) = {Principal}
    BY <1>1, <1>10, StepNextRound
  <2>2. \A q \in Sources \ {s} : job'[q] = job[q] /\ net'[q] = net[q]
    BY <1>10 DEF NextRound, IInv
  <2> QED BY <1>3, <2>1, <2>2
<1> QED BY <1>6, <1>8, <1>9, <1>10 DEF PrincipalFinished

(***************************************************************************)
(* The invariant holds, and what follows from it.                          *)
(***************************************************************************)

LEMMA InitIInv == Init => IInv
<1> SUFFICES ASSUME Init
             PROVE  IInv
  OBVIOUS
<1>1. /\ job = [s \in Sources |-> job[s]] /\ net = [s \in Sources |-> net[s]]
      /\ failures = [s \in Sources |-> failures[s]] /\ misled \subseteq Sources
  BY DEF Init
<1>2. ASSUME NEW s \in Sources
      PROVE  JobInv(s, job[s], net[s], misled, failures[s])
  <2> DEFINE state == job[s]
             n == net[s]
  <2>1. state = [started |-> FALSE, asksPrincipal |-> TRUE, rounds |-> 0,
                 mSubJobCount |-> 0, error |-> NO_ERR, latestResponseCode |-> 0,
                 mForceRetryLater |-> FALSE, collections |-> NoCollections,
                 discovered |-> NoCollections, results |-> 0]
    BY DEF Init
  <2>2. NoCollections \in [Collections -> Nat]
    BY DEF NoCollections
  <2>3. /\ state \in JobState /\ Fresh(state, {}) /\ ~state.started
        /\ state.asksPrincipal /\ state.rounds = 0
    BY <2>1, <2>2, ErrorNumbers DEF JobState, Fresh
  <2>4. /\ n \in [Requests -> Messages] /\ \A r \in Requests : n[r] = Idle
    BY DEF Init, Messages
  <2>5. failures[s] = {}
    BY DEF Init
  <2> HIDE DEF state, n
  <2>6. Busy(n) = {} /\ Fetching(n) = {}
    BY <2>4 DEF Busy, Fetching
  <2>7. n[Principal] = Idle /\ Idle.state = "idle"
    BY <2>4 DEF Requests, Idle
  <2>8. Types(s, state, n, {})
    BY <2>3, <2>4 DEF Types, Expected
  <2>9. Counting(s, state, n, {})
    BY <2>3, <2>6, FetchesAreFinite DEF Counting, Fresh
  <2>10. Rounds(state, n)
    BY <2>3, <2>7 DEF Rounds
  <2>11. Outcome(state, n, {})
    BY <2>3 DEF Outcome, Fresh
  <2>12. Complete1(s, state, n, misled)
    BY <2>3, <2>7 DEF Complete1
  <2> QED BY <2>5, <2>8, <2>9, <2>10, <2>11, <2>12 DEF JobInv, state, n
<1> QED BY <1>1, <1>2 DEF IInv

LEMMA StepIInv == IInv /\ [Next]_vars => IInv'
<1> SUFFICES ASSUME IInv, [Next]_vars
             PROVE  IInv'
  OBVIOUS
<1>1. ASSUME NEW s \in Sources, Start(s)
      PROVE  IInv'
  BY <1>1, StepStart
<1>2. ASSUME NEW s \in Sources, PrincipalFinished(s)
      PROVE  IInv'
  BY <1>2, StepPrincipalFinished
<1>3. ASSUME NEW s \in Sources, NEW f \in Fetches, CollectionsFetchFinished(s, f)
      PROVE  IInv'
  BY <1>3, StepFetchFinished
<1>4. ASSUME NEW s \in Sources, NEW r \in Requests, ServerStep(s, r)
      PROVE  IInv'
  BY <1>4, StepServer
<1>5. CASE UNCHANGED vars
  <2>1. job' = job /\ net' = net /\ misled' = misled /\ failures' = failures
    BY <1>5 DEF vars
  <2> QED BY <2>1 DEF IInv
<1> QED BY <1>1, <1>2, <1>3, <1>4, <1>5 DEF Next, Step, Handler, Finished

THEOREM Invariance == Spec => []IInv
<1> QED BY InitIInv, StepIInv, PTL DEF Spec

\* A job that is done waits for nothing.
LEMMA DoneMeansIdle ==
    ASSUME IInv, NEW s \in Sources, Done(s)
    PROVE  Busy(net[s]) = {} /\ job[s].started
<1>1. JobInv(s, job[s], net[s], misled, failures[s])
  BY DEF IInv
<1>2. Busy(net[s]) = {}
  BY <1>1 DEF JobInv, Counting, Done, Types, JobState
<1>3. job[s].started
  BY <1>1 DEF JobInv, Counting, Done, Fresh
<1> QED BY <1>2, <1>3

\* What the invariant says of a finished job.
LEMMA FailureReturnsNothingHolds == IInv => FailureReturnsNothing
<1> SUFFICES ASSUME IInv, NEW s \in Sources, Done(s)
             PROVE  /\ job[s].error = NO_ERR <=> failures[s] = {}
                    /\ job[s].error # NO_ERR => Returned(s) = {}
  BY DEF FailureReturnsNothing
<1>1. Outcome(job[s], net[s], failures[s])
  BY DEF IInv, JobInv
<1>2. job[s].error # NO_ERR => job[s].collections = NoCollections
  BY <1>1 DEF Outcome, Done
<1>3. job[s].error # NO_ERR => Returned(s) = {}
  BY <1>2 DEF Returned, NoCollections
<1> QED BY <1>1, <1>3 DEF Outcome

LEMMA HomeSetFailureRetryableHolds == IInv => HomeSetFailureRetryable
<1> SUFFICES ASSUME IInv, NEW s \in Sources
             PROVE  /\ failures[s] \cap HomeSets # {} =>
                           CanRetryLater(job[s].mForceRetryLater, job[s].error,
                                         job[s].latestResponseCode)
                    /\ job[s].mForceRetryLater => failures[s] \cap HomeSets # {}
  BY DEF HomeSetFailureRetryable
<1>1. job[s].mForceRetryLater <=> failures[s] \cap HomeSets # {}
  BY DEF IInv, JobInv, Outcome
<1> QED BY <1>1 DEF CanRetryLater

LEMMA ErrorMatchesCodeHolds == IInv => ErrorMatchesCode
BY DEF IInv, JobInv, Outcome, ErrorMatchesCode

LEMMA AtMostTwoRoundsHolds == IInv => AtMostTwoRounds
<1> SUFFICES ASSUME IInv, NEW s \in Sources
             PROVE  job[s].rounds <= 2
  BY DEF AtMostTwoRounds
<1>1. /\ job[s].rounds <= (IF job[s].asksPrincipal THEN 1 ELSE 2)
      /\ job[s].rounds \in Nat
  BY DEF IInv, JobInv, Rounds, Types, JobState
<1> QED BY <1>1

LEMMA SuccessIsCompleteHolds == IInv => SuccessIsComplete
<1> SUFFICES ASSUME IInv, NEW s \in Sources \ misled, Succeeded(s),
                    NEW c \in Collections
             PROVE  /\ job[s].collections[c] = (IF c \in Complete(s) THEN 1 ELSE 0)
                    /\ job[s].discovered[c] = job[s].collections[c]
  BY DEF SuccessIsComplete
<1>1. Busy(net[s]) = {} /\ job[s].started /\ job[s].error = NO_ERR
  BY DoneMeansIdle DEF Succeeded
<1>2. /\ job[s].discovered = job[s].collections
      /\ job[s].collections = [d \in Collections |->
                                  IF d \in Listed(s, net[s]) THEN 1 ELSE 0]
  BY <1>1 DEF IInv, JobInv, Complete1
<1>3. Listed(s, net[s]) = Complete(s)
  BY <1>1 DEF Listed, Complete
<1> QED BY <1>2, <1>3

\* A job that failed in any request says so, and returns nothing.
THEOREM NothingOnFailure == Spec => []FailureReturnsNothing
<1> QED BY FailureReturnsNothingHolds, Invariance, PTL

\* A home set that could not be read makes the job retryable, and nothing
\* else overrides the response code.
THEOREM HomeSetsAreRetried == Spec => []HomeSetFailureRetryable
<1> QED BY HomeSetFailureRetryableHolds, Invariance, PTL

\* The response code is the one of the error that is reported.
THEOREM ErrorsMatchCodes == Spec => []ErrorMatchesCode
<1> QED BY ErrorMatchesCodeHolds, Invariance, PTL

\* Home sets are asked for twice at most.
THEOREM TwoRoundsSuffice == Spec => []AtMostTwoRounds
<1> QED BY AtMostTwoRoundsHolds, Invariance, PTL

\* A job that succeeds returns every collection of every home set, once.
THEOREM Completeness == Spec => []SuccessIsComplete
<1> QED BY SuccessIsCompleteHolds, Invariance, PTL

\* A job starts, and goes on, as ResultOnce says.
LEMMA InitRO == Init => \A s \in Sources : RO(s)!Init
<1> SUFFICES ASSUME Init, NEW s \in Sources
             PROVE  RO(s)!Init
  OBVIOUS
<1> QED BY DEF Init, RO!Init, InFlight

LEMMA StepRO ==
    IInv /\ [Next]_vars =>
        \A s \in Sources : RO(s)!Next \/ UNCHANGED RO(s)!vars
<1> SUFFICES ASSUME IInv, [Next]_vars, NEW s \in Sources
             PROVE  RO(s)!Next \/ UNCHANGED RO(s)!vars
  OBVIOUS
<1> DEFINE left == Busy(net[s])
<1> USE DEF RO!Next, RO!vars, RO!EmitWhenDone
<1>1. /\ InFlight(s) = left /\ InFlight(s)' = Busy(net'[s])
      /\ Busy(net'[s]) \in SUBSET Requests
  BY DEF Busy, InFlight
<1>2. CASE Start(s)
  <2>1. /\ ~job[s].started /\ job'[s].started = TRUE
        /\ job[s].results = 0 /\ job'[s].results = 0 /\ Busy(net'[s]) # {}
    BY <1>2, StartEffect
  <2> QED BY <1>1, <2>1 DEF RO!Start
<1>3. CASE PrincipalFinished(s)
  <2>1. /\ left = {Principal} /\ job[s].results = 0
        /\ job'[s].started /\ job[s].started
        /\ job'[s].results = IF Busy(net'[s]) = {} THEN 1 ELSE 0
    BY <1>3, StepPrincipalFinished
  <2>2. RO(s)!Answer(Principal)
    BY <1>1, <2>1 DEF RO!Answer
  <2> QED BY <2>2 DEF Requests
<1>4. ASSUME NEW f \in Fetches, CollectionsFetchFinished(s, f)
      PROVE  RO(s)!Next
  <2>1. /\ f \in left /\ Busy(net'[s]) = left \ {f} /\ job[s].results = 0
        /\ job'[s].started /\ job[s].started
        /\ job'[s].results = IF Busy(net'[s]) = {} THEN 1 ELSE 0
    BY <1>4, StepFetchFinished
  <2>2. RO(s)!Answer(f)
    BY <1>1, <2>1 DEF RO!Answer
  <2> QED BY <2>2 DEF Requests
<1>5. ASSUME NEW r \in Requests, ServerStep(s, r)
      PROVE  UNCHANGED RO(s)!vars
  BY <1>1, <1>5, StepServer
<1>6. ASSUME job'[s] = job[s], net'[s] = net[s]
      PROVE  UNCHANGED RO(s)!vars
  BY <1>1, <1>6
<1>7. ASSUME NEW q \in Sources, q # s, Start(q) \/ Step(q)
      PROVE  UNCHANGED RO(s)!vars
  <2>1. CASE Start(q)
    BY <1>6, <1>7, <2>1, StartEffect
  <2>2. CASE PrincipalFinished(q)
    BY <1>6, <1>7, <2>2, StepPrincipalFinished
  <2>3. ASSUME NEW f \in Fetches, CollectionsFetchFinished(q, f)
        PROVE  UNCHANGED RO(s)!vars
    BY <1>6, <1>7, <2>3, StepFetchFinished
  <2>4. ASSUME NEW r \in Requests, ServerStep(q, r)
        PROVE  UNCHANGED RO(s)!vars
    BY <1>6, <1>7, <2>4, StepServer
  <2> QED BY <1>7, <2>1, <2>2, <2>3, <2>4 DEF Step, Handler
<1>8. CASE UNCHANGED vars
  BY <1>6, <1>8 DEF vars
<1> QED
  BY <1>2, <1>3, <1>4, <1>5, <1>7, <1>8 DEF Next, Step, Handler, Finished

\* Every variable stays in its type; the unsigned sub-job counter never goes
\* below 0.
LEMMA TypesHold == IInv => TypeOK
<1> SUFFICES ASSUME IInv
             PROVE  TypeOK
  OBVIOUS
<1>1. \A s \in Sources : Types(s, job[s], net[s], failures[s])
  BY DEF IInv, JobInv
<1> QED BY <1>1 DEF IInv, Types, TypeOK

THEOREM TypeCorrectness == Spec => []TypeOK
<1> QED BY TypesHold, Invariance, PTL

\* Each job implements ResultOnce: it emits result() once, when the last
\* answer it waits for has been handled.
THEOREM Implementation == Spec => DeliversOneResult
<1> QED BY InitRO, StepRO, Invariance, PTL DEF Spec, DeliversOneResult

\* What ResultOnce promises, of every reachable state: the application has
\* heard of a job once if nothing is left in flight, and never before.
THEOREM ResultComesOnce == Spec => [](\A s \in Sources : RO(s)!ResultExactlyOnce)
<1> DEFINE Once(s) == /\ RO(s)!ResultExactlyOnce
                      /\ InFlight(s) # {} => job[s].started = TRUE
<1> USE DEF RO!ResultExactlyOnce
<1>1. Init => \A s \in Sources : Once(s)
  BY InitRO DEF RO!Init
<1>2. IInv /\ (\A s \in Sources : Once(s)) /\ [Next]_vars
          => (\A s \in Sources : Once(s))'
  <2> SUFFICES ASSUME IInv, \A s \in Sources : Once(s), [Next]_vars,
                      NEW s \in Sources
               PROVE  Once(s)'
    OBVIOUS
  <2>1. Once(s)
    OBVIOUS
  <2>2. CASE RO(s)!Start
    BY <2>1, <2>2 DEF RO!Start, RO!EmitWhenDone
  <2>3. ASSUME NEW r \in Requests, RO(s)!Answer(r)
        PROVE  Once(s)'
    BY <2>1, <2>3 DEF RO!Answer, RO!EmitWhenDone
  <2>4. CASE UNCHANGED RO(s)!vars
    BY <2>1, <2>4 DEF RO!vars
  <2> QED BY <2>2, <2>3, <2>4, StepRO DEF RO!Next
<1>3. (\A s \in Sources : Once(s)) => \A s \in Sources : RO(s)!ResultExactlyOnce
  OBVIOUS
<1> QED BY <1>1, <1>2, <1>3, Invariance, PTL DEF Spec

=============================================================================
