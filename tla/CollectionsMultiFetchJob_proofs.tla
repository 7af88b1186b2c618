------------------- MODULE CollectionsMultiFetchJob_proofs -------------------
(***************************************************************************)
(* Proofs about CollectionsMultiFetchJob, for any number of subjobs that   *)
(* end in any order, some of them with errors.                             *)
(***************************************************************************)
EXTENDS CollectionsMultiFetchJob, CollectionsFetchJob_proofs

(***************************************************************************)
(* The inductive invariant: that of the subjobs, and what the composite    *)
(* has taken of those that have ended.  The subjobs it still has are those *)
(* that have not emitted their result.                                     *)
(***************************************************************************)

\* What the subjobs that have ended without an error returned.
Taken ==
    {p \in Sources \X Collections :
        /\ p[1] \notin subjobs /\ job[p[1]].error = NO_ERR
        /\ p[2] \in Returned(p[1])}

ErrorTaken ==
    /\ multiError # NO_ERR =>
          \E s \in Sources \ subjobs : multiError = job[s].error
    /\ multiError = NO_ERR =>
          \A s \in Sources \ subjobs : job[s].error = NO_ERR

Composite ==
    /\ multiStarted \in BOOLEAN
    /\ subjobs \subseteq Sources
    /\ \A s \in Sources : /\ job[s].started = multiStarted
                          /\ s \in subjobs <=> job[s].results = 0
    /\ multiCollections = Taken
    /\ ErrorTaken
    /\ multiResults = IF multiStarted /\ subjobs = {} THEN 1 ELSE 0

MultiIInv == IInv /\ Composite

(***************************************************************************)
(* The steps of the subjobs.                                               *)
(***************************************************************************)

\* A step of a subjob concerns no other, and it ends once.
LEMMA SubjobEffect ==
    ASSUME IInv, NEW s \in Sources, Step(s)
    PROVE  /\ IInv'
           /\ \A q \in Sources \ {s} : job'[q] = job[q]
           /\ \/ job' = job
              \/ /\ job[s].started = TRUE /\ job'[s].started = TRUE
                 /\ job[s].results = 0 /\ job'[s].results \in {0, 1}
<1>1. job[s].started \in BOOLEAN /\ IInv => job[s] \in JobState
  BY DEF IInv, JobInv, Types
<1>2. ASSUME NEW r \in Requests, ServerStep(s, r)
      PROVE  IInv' /\ job' = job
  BY <1>2, StepServer
<1>3. ASSUME IInv', job[s].started, job'[s].started
      PROVE  job[s].started = TRUE /\ job'[s].started = TRUE
  <2>1. job[s] \in JobState /\ job'[s] \in JobState
    BY <1>3 DEF IInv, JobInv, Types
  <2> QED BY <1>3, <2>1 DEF JobState
<1>4. CASE PrincipalFinished(s)
  BY <1>3, <1>4, StepPrincipalFinished
<1>5. ASSUME NEW f \in Fetches, CollectionsFetchFinished(s, f)
      PROVE  /\ IInv'
             /\ \A q \in Sources \ {s} : job'[q] = job[q]
             /\ job[s].started = TRUE /\ job'[s].started = TRUE
             /\ job[s].results = 0 /\ job'[s].results \in {0, 1}
  BY <1>3, <1>5, StepFetchFinished
<1> QED BY <1>2, <1>4, <1>5 DEF Step, Handler

\* Every job that has not ended keeps what it has.
LEMMA TakenByOne ==
    ASSUME Composite, NEW s \in subjobs,
           \A q \in Sources \ {s} : job'[q] = job[q],
           SlotResult(s)
    PROVE  multiCollections' = Taken' /\ ErrorTaken'
<1>1. /\ subjobs' = subjobs \ {s} /\ s \in Sources
      /\ \A q \in Sources : q \notin subjobs' <=> q \notin subjobs \/ q = s
  BY DEF SlotResult, Composite
<1>2. Returned(s)' = {d \in Collections : job'[s].collections[d] > 0}
  BY DEF Returned
<1>3. \A q \in Sources \ {s} : Returned(q)' = Returned(q)
  BY DEF Returned
<1>4. multiCollections' = IF job'[s].error # NO_ERR THEN multiCollections
                          ELSE multiCollections \cup {<<s, c>> : c \in Returned(s)'}
  BY <1>2 DEF SlotResult
<1>5. ASSUME NEW p \in Sources \X Collections
      PROVE  p \in Taken' <=> p \in multiCollections'
  <2>1. /\ p = <<p[1], p[2]>> /\ p[1] \in Sources /\ p[2] \in Collections
        /\ p \in Taken' <=> /\ p[1] \notin subjobs' /\ job'[p[1]].error = NO_ERR
                            /\ p[2] \in Returned(p[1])'
    BY DEF Taken
  <2>2. p \in multiCollections <=>
            /\ p[1] \notin subjobs /\ job[p[1]].error = NO_ERR
            /\ p[2] \in Returned(p[1])
    BY DEF Composite, Taken
  <2>3. CASE p[1] = s
    <3>1. p \in {<<s, c>> : c \in Returned(s)'} <=> p[2] \in Returned(s)'
      BY <2>1, <2>3
    <3> QED BY <1>1, <1>4, <2>1, <2>2, <2>3, <3>1
  <2>4. CASE p[1] # s
    <3>1. p \notin {<<s, c>> : c \in Returned(s)'}
      BY <2>1, <2>4
    <3> QED BY <1>1, <1>3, <1>4, <2>1, <2>2, <2>4, <3>1
  <2> QED BY <2>3, <2>4
<1>6. multiCollections' \subseteq Sources \X Collections
  <2>1. multiCollections \subseteq Sources \X Collections
    BY DEF Composite, Taken
  <2>2. {<<s, c>> : c \in Returned(s)'} \subseteq Sources \X Collections
    BY <1>1, <1>2
  <2> QED BY <1>4, <2>1, <2>2
<1>7. multiCollections' = Taken'
  <2>1. Taken' \subseteq Sources \X Collections
    BY DEF Taken
  <2> QED BY <1>5, <1>6, <2>1
<1>8. ErrorTaken'
  <2>1. multiError' = IF multiError = NO_ERR THEN job'[s].error ELSE multiError
    BY DEF SlotResult
  <2>2. \A q \in Sources \ subjobs : q # s /\ job'[q] = job[q]
    OBVIOUS
  <2> QED BY <1>1, <2>1, <2>2 DEF Composite, ErrorTaken
<1> QED BY <1>7, <1>8

LEMMA StepSubjob ==
    ASSUME MultiIInv, NEW s \in Sources, SubjobStep(s)
    PROVE  MultiIInv'
<1>1. /\ IInv' /\ Composite
      /\ \A q \in Sources \ {s} : job'[q] = job[q]
      /\ \/ job' = job
         \/ /\ job[s].started = TRUE /\ job'[s].started = TRUE
            /\ job[s].results = 0 /\ job'[s].results \in {0, 1}
  BY SubjobEffect DEF MultiIInv, SubjobStep
<1>2. job[s].results \in Nat
  BY DEF MultiIInv, IInv, JobInv, Types, JobState
<1>3. CASE job'[s].results > job[s].results
  <2>1. /\ SlotResult(s) /\ job[s].results = 0 /\ job'[s].results = 1
        /\ job[s].started = TRUE /\ job'[s].started = TRUE
    BY <1>1, <1>2, <1>3 DEF SubjobStep
  <2>2. s \in subjobs /\ subjobs' = subjobs \ {s} /\ multiStarted' = multiStarted
        /\ multiStarted = TRUE
    BY <1>1, <2>1 DEF Composite, SlotResult
  <2>3. multiCollections' = Taken' /\ ErrorTaken'
    BY <1>1, <2>1, <2>2, TakenByOne
  <2>4. multiResults = 0
    BY <1>1, <2>2 DEF Composite
  <2>5. multiResults' = IF subjobs' = {} THEN 1 ELSE 0
    BY <2>1, <2>4 DEF SlotResult
  <2>6. ASSUME NEW q \in Sources
        PROVE  job'[q].started = multiStarted' /\ (q \in subjobs' <=> job'[q].results = 0)
    <3>1. job[q].started = multiStarted /\ (q \in subjobs <=> job[q].results = 0)
      BY <1>1 DEF Composite
    <3>2. CASE q = s
      <4>1. job'[q].started = TRUE /\ multiStarted' = TRUE
        BY <2>1, <2>2, <3>2
      <4>2. q \notin subjobs' /\ job'[q].results # 0
        BY <2>1, <2>2, <3>2
      <4> QED BY <4>1, <4>2, Zenon
    <3>3. CASE q # s
      BY <1>1, <2>2, <3>1, <3>3
    <3> QED BY <3>2, <3>3
  <2>7. Composite'
    BY <1>1, <2>2, <2>3, <2>5, <2>6 DEF Composite
  <2> QED BY <1>1, <2>7 DEF MultiIInv
<1>4. CASE ~(job'[s].results > job[s].results)
  <2>1. UNCHANGED multiVars
    BY <1>4 DEF SubjobStep
  <2>2. ASSUME NEW q \in Sources
        PROVE  /\ job'[q].started = job[q].started
               /\ job'[q].results = 0 <=> job[q].results = 0
               /\ q \notin subjobs => job'[q] = job[q]
    <3>1. q \in subjobs <=> job[q].results = 0
      BY <1>1 DEF Composite
    <3>2. CASE q = s
      <4>1. CASE job' = job
        BY <4>1
      <4>2. CASE job[s].results = 0 /\ job'[s].results \in {0, 1}
                 /\ job[s].started = TRUE /\ job'[s].started = TRUE
        <5>1. job'[q].started = job[q].started
          BY <3>2, <4>2, Zenon
        <5>2. job[q].results = 0 /\ job'[q].results = 0
          BY <1>4, <3>2, <4>2
        <5> QED BY <3>1, <5>1, <5>2, Zenon
      <4> QED BY <1>1, <4>1, <4>2
    <3>3. CASE q # s
      BY <1>1, <3>3
    <3> QED BY <3>2, <3>3
  <2>3. \A q \in Sources \ subjobs : Returned(q)' = Returned(q)
    BY <2>2 DEF Returned
  <2>4. Taken' = Taken
    BY <2>1, <2>2, <2>3 DEF Taken, multiVars
  <2>5. ErrorTaken'
    BY <1>1, <2>1, <2>2 DEF Composite, ErrorTaken, multiVars
  <2>6. Composite'
    BY <1>1, <2>1, <2>2, <2>4, <2>5 DEF Composite, multiVars
  <2> QED BY <1>1, <2>6 DEF MultiIInv
<1> QED BY <1>3, <1>4

\* start() starts all subjobs.
LEMMA StepMultiStart ==
    ASSUME MultiIInv, MultiStart
    PROVE  MultiIInv' /\ subjobs = Sources /\ multiResults = 0
<1>1. /\ IInv /\ Composite /\ multiStarted = FALSE /\ multiStarted' = TRUE
      /\ job' = [s \in Sources |-> Started(s)]
      /\ net' = [s \in Sources |-> Sends(net[s], {FirstRequest(s)})]
      /\ misled' = misled /\ failures' = failures /\ subjobs' = subjobs
      /\ multiError' = multiError /\ multiCollections' = multiCollections
  BY DEF MultiIInv, MultiStart, Composite
<1>2. ASSUME NEW s \in Sources
      PROVE  /\ JobInv(s, job'[s], net'[s], misled', failures'[s])
             /\ job[s].results = 0 /\ job'[s].results = 0 /\ job'[s].started = TRUE
  <2>1. ~job[s].started /\ job[s] \in JobState
    BY <1>1 DEF Composite, IInv, JobInv, Types
  <2>2. /\ failures[s] = {}
        /\ JobInv(s, Started(s), Sends(net[s], {FirstRequest(s)}), misled, {})
    BY <1>1, <2>1, StartedInv
  <2>3. JobInv(s, job'[s], net'[s], misled', failures'[s])
    BY <1>1, <2>2
  <2>4. job[s].results = 0
    BY <1>1, <2>1 DEF IInv, JobInv, Counting, Fresh
  <2>5. Started(s).started = TRUE /\ Started(s).results = job[s].results
    BY <2>1 DEF Started, FetchHomeSets, DoCollectionsFetch, JobState
  <2> QED BY <1>1, <2>3, <2>4, <2>5
<1>3. IInv'
  <2>1. /\ job' = [s \in Sources |-> job'[s]] /\ net' = [s \in Sources |-> net'[s]]
        /\ failures' = [s \in Sources |-> failures'[s]] /\ misled' \subseteq Sources
    BY <1>1 DEF IInv
  <2> QED BY <1>2, <2>1 DEF IInv
<1>4. subjobs = Sources /\ multiResults = 0
  BY <1>1, <1>2 DEF Composite
<1>5. Taken = {} /\ Taken' = {}
  BY <1>1, <1>4 DEF Taken
<1>6. ErrorTaken'
  BY <1>1, <1>4 DEF Composite, ErrorTaken
<1>7. multiResults' = IF subjobs' = {} THEN 1 ELSE 0
  BY <1>1, <1>4 DEF MultiStart
<1>8. Composite'
  BY <1>1, <1>2, <1>4, <1>5, <1>6, <1>7 DEF Composite
<1> QED BY <1>3, <1>4, <1>8 DEF MultiIInv

(***************************************************************************)
(* The invariant holds, and what follows from it.                          *)
(***************************************************************************)

\* The invariant of the composite and its subjobs.
THEOREM MultiInvariance == MultiSpec => []MultiIInv
<1>1. MultiInit => MultiIInv
  <2> SUFFICES ASSUME MultiInit
               PROVE  MultiIInv
    OBVIOUS
  <2>1. IInv
    BY InitIInv DEF MultiInit
  <2>2. \A s \in Sources : job[s].started = FALSE /\ job[s].results = 0
    BY DEF MultiInit, Init
  <2>3. Taken = {} /\ ErrorTaken
    BY DEF MultiInit, Taken, ErrorTaken
  <2>4. Composite
    BY <2>2, <2>3 DEF MultiInit, Composite
  <2> QED BY <2>1, <2>4 DEF MultiIInv
<1>2. MultiIInv /\ [MultiNext]_allVars => MultiIInv'
  <2> SUFFICES ASSUME MultiIInv, [MultiNext]_allVars
               PROVE  MultiIInv'
    OBVIOUS
  <2>1. CASE UNCHANGED allVars
    <3>1. /\ UNCHANGED <<job, net, misled, failures>>
          /\ UNCHANGED <<multiStarted, subjobs, multiError, multiCollections,
                         multiResults>>
      BY <2>1 DEF allVars, vars, multiVars
    <3>2. IInv'
      BY <3>1 DEF MultiIInv, IInv
    <3>3. Composite'
      BY <3>1 DEF MultiIInv, Composite, Taken, ErrorTaken, Returned
    <3> QED BY <3>2, <3>3 DEF MultiIInv
  <2> QED BY <2>1, StepMultiStart, StepSubjob DEF MultiNext, MultiFinished
<1> QED BY <1>1, <1>2, PTL DEF MultiSpec

\* The composite returns what its successful subjobs returned, and an error
\* exactly if one of them failed.
THEOREM SubjobsAreCombined == MultiSpec => []CombinesSubjobs
<1>1. MultiIInv => CombinesSubjobs
  <2> SUFFICES ASSUME MultiIInv, multiResults > 0
               PROVE  /\ multiCollections =
                            UNION {{s} \X Returned(s) :
                                      s \in {x \in Sources : Succeeded(x)}}
                      /\ multiError \in {job[s].error : s \in Sources} \cup {NO_ERR}
                      /\ multiError = NO_ERR <=> \A s \in Sources : Succeeded(s)
    BY DEF CombinesSubjobs
  <2>1. Composite /\ subjobs = {}
    BY DEF MultiIInv, Composite
  <2>2. \A s \in Sources : Done(s)
    <3>1. \A s \in Sources : job[s].results \in Nat
      BY DEF MultiIInv, IInv, JobInv, Types, JobState
    <3> QED BY <2>1, <3>1 DEF Composite, Done
  <2>3. \A s \in Sources : Succeeded(s) <=> job[s].error = NO_ERR
    BY <2>2 DEF Succeeded
  <2>4. multiCollections = Taken
    BY <2>1 DEF Composite
  <2>5. \A s \in Sources : Returned(s) \subseteq Collections
    BY DEF Returned
  <2>6. Taken = UNION {{s} \X Returned(s) : s \in {x \in Sources : Succeeded(x)}}
    <3> DEFINE Sum == UNION {{s} \X Returned(s) :
                                s \in {x \in Sources : Succeeded(x)}}
    <3>1. ASSUME NEW p \in Taken PROVE p \in Sum
      <4>1. p = <<p[1], p[2]>> /\ p[1] \in Sources /\ p[2] \in Returned(p[1])
            /\ Succeeded(p[1])
        BY <2>3 DEF Taken
      <4>2. p \in {p[1]} \X Returned(p[1])
        BY <4>1
      <4> QED BY <4>1, <4>2
    <3>2. ASSUME NEW p \in Sum PROVE p \in Taken
      <4>1. PICK s \in Sources : Succeeded(s) /\ p \in {s} \X Returned(s)
        BY <3>2
      <4>2. p = <<s, p[2]>> /\ p[1] = s /\ p[2] \in Returned(s)
        BY <4>1
      <4> QED BY <2>1, <2>3, <2>5, <4>1, <4>2 DEF Taken
    <3> QED BY <3>1, <3>2
  <2> QED BY <2>1, <2>3, <2>4, <2>6 DEF Composite, ErrorTaken
<1> QED BY <1>1, MultiInvariance, PTL

\* What is proved of the jobs one by one holds of the subjobs, that are started
\* together: none passes an incomplete list off as complete.
THEOREM SubjobsAreComplete == MultiSpec => []SuccessIsComplete
<1>1. MultiIInv => SuccessIsComplete
  BY SuccessIsCompleteHolds DEF MultiIInv
<1> QED BY <1>1, MultiInvariance, PTL

\* None returns anything beside an error.
THEOREM SubjobsReturnNothingOnFailure == MultiSpec => []FailureReturnsNothing
<1>1. MultiIInv => FailureReturnsNothing
  BY FailureReturnsNothingHolds DEF MultiIInv
<1> QED BY <1>1, MultiInvariance, PTL

\* A home set that failed makes its subjob retryable.
THEOREM SubjobsRetryHomeSets == MultiSpec => []HomeSetFailureRetryable
<1>1. MultiIInv => HomeSetFailureRetryable
  BY HomeSetFailureRetryableHolds DEF MultiIInv
<1> QED BY <1>1, MultiInvariance, PTL

\* The error a subjob reports is the one its response code is of.
THEOREM SubjobsErrorsMatchCodes == MultiSpec => []ErrorMatchesCode
<1>1. MultiIInv => ErrorMatchesCode
  BY ErrorMatchesCodeHolds DEF MultiIInv
<1> QED BY <1>1, MultiInvariance, PTL

\* No subjob asks for home sets more than twice.
THEOREM SubjobsTwoRounds == MultiSpec => []AtMostTwoRounds
<1>1. MultiIInv => AtMostTwoRounds
  BY AtMostTwoRoundsHolds DEF MultiIInv
<1> QED BY <1>1, MultiInvariance, PTL

\* Each subjob implements ResultOnce also when all of them start in one step.
THEOREM SubjobsDeliverOnce == MultiSpec => DeliversOneResult
<1> DEFINE Once(s) == RO(s)!Next \/ UNCHANGED RO(s)!vars
<1>1. MultiInit => \A s \in Sources : RO(s)!Init
  BY InitRO DEF MultiInit
<1>2. ASSUME MultiIInv, [MultiNext]_allVars, NEW s \in Sources
      PROVE  Once(s)
  <2>1. ASSUME [Next]_vars PROVE Once(s)
    BY <1>2, <2>1, StepRO DEF MultiIInv
  <2>2. CASE MultiStart
    <3>1. /\ ~job[s].started /\ job[s] \in JobState
          /\ job[s].results = 0
      BY <1>2, <2>2 DEF MultiStart, MultiIInv, Composite, IInv, JobInv, Types,
                        Counting, Fresh
    <3>2. job'[s] = Started(s) /\ net'[s] = Sends(net[s], {FirstRequest(s)})
      BY <2>2 DEF MultiStart
    <3>3. Started(s).started = TRUE /\ Started(s).results = job[s].results
      BY <3>1 DEF Started, FetchHomeSets, DoCollectionsFetch, JobState
    <3>4. FirstRequest(s) \in InFlight(s)'
      BY <3>2 DEF FirstRequest, Requests, Fetches, Sends, InFlight, Idle, Sent
    <3>5. InFlight(s)' \in SUBSET Requests
      BY DEF InFlight
    <3>6. RO(s)!Start
      BY <3>1, <3>2, <3>3, <3>4, <3>5 DEF RO!Start, RO!EmitWhenDone
    <3> QED BY <3>6 DEF RO!Next
  <2>3. ASSUME NEW q \in Sources, SubjobStep(q) PROVE Once(s)
    BY <2>1, <2>3 DEF SubjobStep, Next
  <2>4. CASE UNCHANGED allVars
    BY <2>1, <2>4 DEF allVars
  <2> QED BY <1>2, <2>2, <2>3, <2>4 DEF MultiNext, MultiFinished
<1>3. MultiIInv /\ [MultiNext]_allVars => [\A s \in Sources : Once(s)]_vars
  BY <1>2
<1> QED BY <1>1, <1>3, MultiInvariance, PTL DEF MultiSpec, DeliversOneResult

\* Every variable stays in its type, the subjobs' and the composite's own.
THEOREM MultiTypeCorrectness == MultiSpec => []MultiTypeOK
<1>1. MultiIInv => MultiTypeOK
  <2> SUFFICES ASSUME MultiIInv
               PROVE  MultiTypeOK
    OBVIOUS
  <2>1. TypeOK
    BY TypesHold DEF MultiIInv
  <2>2. multiError \in ErrorNumber
    <3>1. \A s \in Sources : job[s].error \in ErrorNumber
      BY <2>1 DEF TypeOK, JobState
    <3> QED BY <3>1, ErrorNumbers DEF MultiIInv, Composite, ErrorTaken
  <2>3. multiCollections \subseteq Sources \X Collections
    BY DEF MultiIInv, Composite, Taken
  <2>4. /\ multiStarted \in BOOLEAN /\ subjobs \subseteq Sources
        /\ multiResults \in Nat
    BY DEF MultiIInv, Composite
  <2> QED BY <2>1, <2>2, <2>3, <2>4 DEF MultiTypeOK
<1> QED BY <1>1, MultiInvariance, PTL

\* The composite has emitted its result once if all its subjobs have ended,
\* and not before, even when it has none.
THEOREM MultiResultComesOnce == MultiSpec => []MRO!ResultExactlyOnce
<1>1. MultiIInv => MRO!ResultExactlyOnce
  BY DEF MultiIInv, Composite, MRO!ResultExactlyOnce
<1> QED BY <1>1, MultiInvariance, PTL

\* The composite implements ResultOnce, its subjobs in the place of requests: it
\* emits result() once, in the step in which the last subjob emits its own.
THEOREM MultiImplementation == MultiSpec => MultiDeliversOneResult
<1>1. MultiInit => MRO!Init
  BY DEF MultiInit, MRO!Init
<1>2. MultiIInv /\ [MultiNext]_allVars => [MRO!Next]_(MRO!vars)
  <2> SUFFICES ASSUME MultiIInv, [MultiNext]_allVars
               PROVE  MRO!Next \/ UNCHANGED MRO!vars
    OBVIOUS
  <2> DEFINE left == IF multiStarted THEN subjobs ELSE {}
  <2> USE DEF MRO!vars, MRO!EmitWhenDone
  <2>1. CASE MultiStart
    <3>1. /\ multiStarted = FALSE /\ multiStarted' = TRUE /\ subjobs' = subjobs
          /\ left' = subjobs /\ subjobs = Sources
          /\ multiResults' = IF left' = {} THEN multiResults + 1 ELSE multiResults
      BY <2>1, StepMultiStart DEF MultiStart, MultiIInv, Composite
    <3> QED BY <3>1 DEF MRO!Next, MRO!Start
  <2>2. ASSUME NEW s \in Sources, SubjobStep(s)
        PROVE  MRO!Next \/ UNCHANGED MRO!vars
    <3>1. CASE job'[s].results > job[s].results
      <4>1. SlotResult(s) /\ job[s].results = 0 /\ job[s].started = TRUE
        <5>1. Step(s) /\ IInv /\ SlotResult(s)
          BY <2>2, <3>1 DEF SubjobStep, MultiIInv
        <5>2. job[s].results \in Nat
          BY <5>1 DEF IInv, JobInv, Types, JobState
        <5>3. job' # job
          BY <3>1, <5>2
        <5> QED BY <5>1, <5>3, SubjobEffect
      <4>2. /\ s \in subjobs /\ multiStarted = TRUE /\ multiStarted' = TRUE
            /\ left = subjobs /\ left' = subjobs \ {s} /\ subjobs' = subjobs \ {s}
        BY <4>1 DEF MultiIInv, Composite, SlotResult
      <4>3. multiResults' = IF left' = {} THEN multiResults + 1 ELSE multiResults
        BY <4>1, <4>2 DEF SlotResult
      <4>4. left' = (left \ {s}) \cup {} /\ {} \in SUBSET Sources
        BY <4>2
      <4>5. MRO!Answer(s)
        BY <4>2, <4>3, <4>4 DEF MRO!Answer
      <4> QED BY <4>5 DEF MRO!Next
    <3>2. CASE ~(job'[s].results > job[s].results)
      BY <2>2, <3>2 DEF SubjobStep, multiVars
    <3> QED BY <3>1, <3>2
  <2>3. CASE UNCHANGED allVars
    BY <2>3 DEF allVars, multiVars
  <2> QED BY <2>1, <2>2, <2>3 DEF MultiNext, MultiFinished
<1> QED BY <1>1, <1>2, MultiInvariance, PTL DEF MultiSpec, MultiDeliversOneResult, MRO!Spec

=============================================================================
