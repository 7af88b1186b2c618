---------------------- MODULE PrincipalSearchJob_proofs ----------------------
(***************************************************************************)
(* Proofs about PrincipalSearchJob, for any principal collection sets,     *)
(* whatever is in them and in whatever order their answers come.           *)
(***************************************************************************)
EXTENDS PrincipalSearchJob, FiniteSetTheorems, TLAPS

(***************************************************************************)
(* The inductive invariant.                                                *)
(***************************************************************************)

\* What a search of a set may find.
WantedResults(set) ==
    {r \in Results : \E p \in Directory[set] : IsWanted(p) /\ r[2] \in p[r[1]]}

\* What a request may be answered with.
Expected(r) ==
    {Idle, Sent, Useless} \cup [state : {"failed"}, status : Nat]
    \cup (IF r = Propfind
          THEN [state : {"located"},
                sets : {sets \in SUBSET CollectionSets : sets # {} \/ EmptySets}]
          ELSE [state : {"found"}, values : SUBSET WantedResults(r)])

Types == TypeOK /\ \A r \in Requests : net[r] \in Expected(r)

Searches == InFlight \cap CollectionSets

\* The job either locates the sets or searches them, and counts the searches
\* it waits for.
Counting ==
    /\ subJobCount = Cardinality(Searches)
    /\ ~started => InFlight = {} /\ searched = {} /\ results = 0
    /\ Propfind \in InFlight => InFlight = {Propfind} /\ searched = {}
    /\ InFlight # {} => results = 0
    /\ Searches \subseteq searched

\* The error state is the first success's, or else that of some failed search.
Outcome ==
    /\ subJobSuccessful <=> succeeded # {}
    /\ subJobSuccessful => error = NO_ERR
    /\ searched = {} /\ results = 0 => error = NO_ERR
    /\ searched # {} /\ ~subJobSuccessful /\ error = NO_ERR =>
          searched \subseteq InFlight
    /\ searched # {} /\ error # NO_ERR =>
          (error = "ERR_SERVER_UNRECOVERABLE" <=> latestResponseCode >= 500)

FoundInv == \A r \in mResults : \E s \in succeeded : r \in WantedResults(s)

IInv == Types /\ Counting /\ Outcome /\ FoundInv

(***************************************************************************)
(* Facts about the data.                                                   *)
(***************************************************************************)

LEMMA ErrorNumbers ==
    /\ {NO_ERR, "ERR_PROBLEM_WITH_REQUEST", "ERR_SERVER_UNRECOVERABLE"}
          \subseteq ErrorNumber
    /\ "ERR_PROBLEM_WITH_REQUEST" # NO_ERR
    /\ "ERR_SERVER_UNRECOVERABLE" # NO_ERR
BY DEF ErrorNumber, NO_ERR

\* Messages are told apart by their state.
LEMMA MessageStates ==
    /\ Idle.state = "idle" /\ Sent.state = "sent" /\ Useless.state = "useless"
    /\ Idle # Sent /\ Idle # Useless
    /\ \A r : \A m \in Expected(r) :
        /\ m.state \in {"idle", "sent", "useless", "failed", "located", "found"}
        /\ m = Idle <=> m.state = "idle"
        /\ m.state = "failed" => m.status \in Nat
        /\ m.state = "located" =>
              /\ r = Propfind
              /\ m.sets \in SUBSET CollectionSets
              /\ m.sets # {} \/ EmptySets
        /\ m.state = "found" =>
              /\ r # Propfind
              /\ m.values \in SUBSET WantedResults(r)
BY DEF Idle, Sent, Useless, Expected

LEMMA ExpectedMessages ==
    ASSUME NEW r \in Requests
    PROVE  Expected(r) \subseteq Messages
BY DEF Expected, Messages, WantedResults

\* What the query matches is what the caller asked for.
LEMMA QueryFindsWanted ==
    ASSUME NEW set, NEW p \in Directory[set], Matches(p, ReportQuery)
    PROVE  Properties(p, ReportQuery) \subseteq WantedResults(set)
<1>1. /\ ReportQuery.match = Filter /\ ReportQuery.fetch = FetchProperties
      /\ ReportQuery.search = IF FilterType = "DisplayName" THEN "displayname"
                              ELSE "calendar-user-address-set"
  BY DEF ReportQuery
<1>2. IsWanted(p)
  BY <1>1, PrincipalSearchAssumption DEF Matches, IsWanted
<1>3. Properties(p, ReportQuery) = {r \in Results : r[2] \in p[r[1]]}
  BY <1>1 DEF Properties, Results
<1> QED BY <1>2, <1>3 DEF WantedResults

LEMMA SearchesAreFinite ==
    /\ IsFiniteSet(Searches)
    /\ Cardinality(Searches) \in Nat
    /\ Cardinality(Searches) = 0 <=> Searches = {}
<1>1. Searches \subseteq CollectionSets BY DEF Searches
<1> QED BY <1>1, PrincipalSearchAssumption, FS_Subset, FS_CardinalityType,
           FS_EmptySet

(***************************************************************************)
(* What the actions do to the requests in flight.                          *)
(***************************************************************************)

LEMMA StartEffect ==
    ASSUME IInv, Start
    PROVE  /\ InFlight' = {Propfind} /\ Searches' = {} /\ Searches = {}
           /\ \A r \in Requests : net'[r] \in Expected(r)
<1>1. InFlight = {}
  BY DEF Start, IInv, Counting
<1>2. \A r \in Requests : net'[r] = IF r = Propfind THEN Sent ELSE Idle
  BY <1>1 DEF Start, IInv, Types, TypeOK, InFlight
<1>3. InFlight' = {Propfind}
  BY <1>2, MessageStates DEF InFlight, Requests
<1> QED BY <1>1, <1>2, <1>3, PrincipalSearchAssumption DEF Searches, Expected

LEMMA ServerStepEffect ==
    ASSUME IInv, NEW r \in Requests, ServerStep(r)
    PROVE  /\ InFlight' = InFlight
           /\ \A q \in Requests : net'[q] \in Expected(q)
           /\ UNCHANGED <<started, jobVars, historyVars>>
<1>1. ASSUME NEW m \in Expected(r), m # Idle, Replies(r, m)
      PROVE  /\ InFlight' = InFlight
             /\ \A q \in Requests : net'[q] \in Expected(q)
             /\ UNCHANGED <<started, jobVars, historyVars>>
  <2>1. \A q \in Requests : net'[q] = IF q = r THEN m ELSE net[q]
    BY <1>1 DEF Replies, IInv, Types, TypeOK
  <2>2. net[r] # Idle
    BY <1>1, MessageStates DEF Replies
  <2> QED BY <1>1, <2>1, <2>2 DEF Replies, InFlight, IInv, Types
<1>2. CASE r = Propfind /\ Locates
  <2>1. PICK sets \in SUBSET CollectionSets :
            (sets # {} \/ EmptySets) /\ Replies(Propfind, Located(sets))
    BY <1>2 DEF Locates
  <2>2. Located(sets) \in Expected(r) /\ Located(sets) # Idle
    BY <1>2, <2>1 DEF Located, Expected, Idle
  <2> QED BY <1>1, <1>2, <2>1, <2>2
<1>3. CASE r \in CollectionSets /\ Finds(r)
  <2>1. PICK p \in Directory[r] :
            /\ Matches(p, ReportQuery)
            /\ Replies(r, Found(Properties(p, ReportQuery)))
    BY <1>3 DEF Finds
  <2> DEFINE values == Properties(p, ReportQuery)
  <2>2. values \in SUBSET WantedResults(r)
    BY <2>1, QueryFindsWanted
  <2> HIDE DEF values
  <2>3. Found(values) \in Expected(r) /\ Found(values) # Idle
    BY <1>3, <2>2, PrincipalSearchAssumption DEF Found, Expected, Idle
  <2> QED BY <1>1, <2>1, <2>3 DEF values
<1>4. CASE FailsOrUseless(r)
  <2>1. ASSUME NEW status \in FailCodes
        PROVE  Failure(status) \in Expected(r) /\ Failure(status) # Idle
    BY PrincipalSearchAssumption DEF Failure, Expected, Idle
  <2>2. Useless \in Expected(r) /\ Useless # Idle
    BY DEF Useless, Expected, Idle
  <2> QED BY <1>1, <1>4, <2>1, <2>2 DEF FailsOrUseless
<1> QED BY <1>2, <1>3, <1>4 DEF ServerStep

\* The answer to the request in flight at Propfind is consumed, when no search
\* was sent yet.
LEMMA PropfindHandled ==
    ASSUME IInv, net[Propfind] # Idle
    PROVE  /\ InFlight = {Propfind} /\ Searches = {} /\ subJobCount = 0
           /\ searched = {} /\ succeeded = {} /\ results = 0 /\ started
           /\ error = NO_ERR /\ ~subJobSuccessful /\ mResults = {}
           /\ net[Propfind] \in Expected(Propfind)
<1>1. Propfind \in InFlight
  BY DEF InFlight, Requests
<1>2. InFlight = {Propfind} /\ searched = {} /\ results = 0 /\ started
  BY <1>1 DEF IInv, Counting
<1>3. Searches = {}
  BY <1>2, PrincipalSearchAssumption DEF Searches
<1>4. succeeded = {} /\ error = NO_ERR /\ ~subJobSuccessful
  BY <1>2 DEF IInv, Types, TypeOK, Outcome
<1>5. subJobCount = 0
  BY <1>3, SearchesAreFinite DEF IInv, Counting
<1>6. mResults = {}
  BY <1>4 DEF IInv, FoundInv
<1>7. net[Propfind] \in Expected(Propfind)
  BY DEF IInv, Types, Requests
<1> QED BY <1>2, <1>3, <1>4, <1>5, <1>6, <1>7

\* A search is answered.
LEMMA SearchHandled ==
    ASSUME IInv, NEW set \in CollectionSets, PrincipalPropertySearchFinished(set)
    PROVE  /\ set \in Searches /\ set \in searched /\ started
           /\ InFlight = Searches /\ InFlight' = InFlight \ {set}
           /\ Searches' = Searches \ {set}
           /\ subJobCount' = Cardinality(Searches')
           /\ subJobCount' \in Nat
           /\ results = 0
           /\ results' = IF InFlight' = {} THEN 1 ELSE 0
           /\ net[set] \in Expected(set)
           /\ \A r \in Requests : net'[r] \in Expected(r)
<1>1. net[set] \in Expected(set) /\ set \in Requests /\ set # Propfind
  BY PrincipalSearchAssumption DEF IInv, Types, Requests
<1>2. net[set] # Idle
  BY <1>1, MessageStates DEF PrincipalPropertySearchFinished
<1>3. set \in InFlight /\ set \in Searches
  BY <1>1, <1>2 DEF InFlight, Searches
<1>4. Propfind \notin InFlight
  BY <1>1, <1>3 DEF IInv, Counting
<1>5. InFlight = Searches
  BY <1>4 DEF Searches, InFlight, Requests
<1>6. \A r \in Requests : net'[r] = IF r = set THEN Idle ELSE net[r]
  BY DEF PrincipalPropertySearchFinished, IInv, Types, TypeOK
<1>7. InFlight' = InFlight \ {set}
  BY <1>6 DEF InFlight
<1>8. Searches' = Searches \ {set}
  BY <1>7 DEF Searches
<1>9. /\ Cardinality(Searches') = Cardinality(Searches) - 1
      /\ IsFiniteSet(Searches')
  BY <1>3, <1>8, SearchesAreFinite, FS_RemoveElement
<1>10. /\ Cardinality(Searches') \in Nat
       /\ Cardinality(Searches') = 0 <=> Searches' = {}
  BY <1>9, FS_CardinalityType, FS_EmptySet
<1>11. results = 0 /\ set \in searched /\ started
       /\ subJobCount = Cardinality(Searches)
  BY <1>3 DEF IInv, Counting
<1>12. subJobCount' = Cardinality(Searches')
  BY <1>9, <1>11 DEF PrincipalPropertySearchFinished
<1>13. InFlight' = {} <=> Searches' = {}
  BY <1>5, <1>7, <1>8
<1>14. results' = IF InFlight' = {} THEN 1 ELSE 0
  BY <1>10, <1>11, <1>12, <1>13 DEF PrincipalPropertySearchFinished
<1>15. \A r \in Requests : net'[r] \in Expected(r)
  BY <1>6 DEF IInv, Types, Expected
<1> QED BY <1>1, <1>3, <1>5, <1>7, <1>8, <1>10, <1>11, <1>12, <1>14, <1>15

(***************************************************************************)
(* Initially, and across every step.                                       *)
(***************************************************************************)

LEMMA InitIInv == Init => IInv
<1> SUFFICES ASSUME Init PROVE IInv OBVIOUS
<1> USE DEF Init
<1>1. \A r \in Requests : net[r] = Idle
  OBVIOUS
<1>2. InFlight = {} /\ Searches = {}
  BY <1>1 DEF InFlight, Searches
<1>3. Types
  <2>1. Idle \in Messages /\ \A r : Idle \in Expected(r)
    BY DEF Messages, Expected
  <2> QED BY <1>1, <2>1, ErrorNumbers DEF Types, TypeOK
<1>4. Counting
  BY <1>2, SearchesAreFinite DEF Counting
<1>5. Outcome /\ FoundInv
  BY DEF Outcome, FoundInv
<1> QED BY <1>3, <1>4, <1>5 DEF IInv

\* The types follow from those of the messages and of what a step writes.
LEMMA TypesPrime ==
    ASSUME IInv, [Next]_vars, DOMAIN net' = Requests,
           net' = [r \in Requests |-> net'[r]],
           \A r \in Requests : net'[r] \in Expected(r),
           started' \in BOOLEAN, subJobCount' \in Nat,
           subJobSuccessful' \in BOOLEAN, error' \in ErrorNumber,
           latestResponseCode' \in Nat, mResults' \subseteq Results,
           results' \in Nat, succeeded' \subseteq searched',
           searched' \subseteq CollectionSets
    PROVE  Types'
<1>1. net' \in [Requests -> Messages]
  BY ExpectedMessages
<1>2. TypeOK'
  BY <1>1 DEF TypeOK
<1>3. \A r \in Requests : net'[r] \in Expected(r)'
  <2>1. \A r : Expected(r)' = Expected(r)
    BY DEF Expected, WantedResults, IsWanted
  <2> QED BY <2>1
<1> QED BY <1>2, <1>3 DEF Types

LEMMA StepStart ==
    ASSUME IInv, [Next]_vars, Start
    PROVE  IInv'
<1> USE DEF Start, jobVars, historyVars
<1>1. TypeOK /\ searched = {} /\ results = 0 /\ succeeded = {}
  BY DEF IInv, Types, TypeOK, Counting
<1>2. Types'
  BY <1>1, StartEffect, TypesPrime DEF TypeOK
<1>3. Counting'
  BY <1>1, StartEffect, SearchesAreFinite DEF IInv, Counting
<1>4. Outcome' /\ FoundInv'
  BY <1>1 DEF IInv, Outcome, FoundInv, WantedResults, IsWanted
<1> QED BY <1>2, <1>3, <1>4 DEF IInv

LEMMA StepServer ==
    ASSUME IInv, [Next]_vars, NEW r \in Requests, ServerStep(r)
    PROVE  IInv'
<1> USE DEF jobVars, historyVars
<1>1. /\ InFlight' = InFlight /\ Searches' = Searches
      /\ \A q \in Requests : net'[q] \in Expected(q)
      /\ UNCHANGED <<started, jobVars, historyVars>>
  BY ServerStepEffect DEF Searches
<1>2. net' = [q \in Requests |-> net'[q]]
  BY DEF ServerStep, Locates, Finds, FailsOrUseless, Replies, IInv, Types, TypeOK
<1>3. Types'
  BY <1>1, <1>2, TypesPrime DEF IInv, Types, TypeOK
<1>4. Counting'
  BY <1>1 DEF IInv, Counting
<1>5. Outcome' /\ FoundInv'
  BY <1>1 DEF IInv, Outcome, FoundInv, WantedResults, IsWanted
<1> QED BY <1>3, <1>4, <1>5 DEF IInv

LEMMA StepLocatingEnds ==
    ASSUME IInv, [Next]_vars, LocatingEnds
    PROVE  IInv' /\ Propfind \in InFlight /\ InFlight' = {} /\ results' = 1
<1> USE DEF LocatingEnds, historyVars
<1>1. Propfind \in Requests /\ net[Propfind] \in Expected(Propfind)
  BY DEF IInv, Types, Requests
<1>2. net[Propfind] # Idle
  BY <1>1, MessageStates
<1>3. /\ InFlight = {Propfind} /\ Searches = {} /\ subJobCount = 0
      /\ searched = {} /\ succeeded = {} /\ results = 0 /\ started
      /\ error = NO_ERR /\ ~subJobSuccessful /\ mResults = {}
  BY <1>2, PropfindHandled
<1>4. \A r \in Requests : net'[r] = Idle
  BY <1>3 DEF InFlight, IInv, Types, TypeOK
<1>5. InFlight' = {} /\ Searches' = {}
  BY <1>4 DEF InFlight, Searches
<1>6. Types'
  <2>1. net' = [r \in Requests |-> net'[r]]
    BY DEF IInv, Types, TypeOK
  <2>2. \A r \in Requests : net'[r] \in Expected(r)
    BY <1>4 DEF Expected
  <2>3. error' \in ErrorNumber /\ latestResponseCode' \in Nat
    BY <1>1, MessageStates, ErrorNumbers DEF IInv, Types, TypeOK
  <2> QED BY <1>3, <2>1, <2>2, <2>3, TypesPrime DEF IInv, Types, TypeOK
<1>7. Counting'
  BY <1>3, <1>5, SearchesAreFinite DEF Counting
<1>8. Outcome' /\ FoundInv'
  BY <1>3 DEF Outcome, FoundInv
<1> QED BY <1>3, <1>5, <1>6, <1>7, <1>8 DEF IInv

LEMMA StepSearchSets ==
    ASSUME IInv, [Next]_vars, SearchSets
    PROVE  /\ IInv' /\ Propfind \in InFlight /\ results' = results
           /\ InFlight' \in SUBSET CollectionSets
           /\ InFlight' # {} \/ EmptySets
<1> DEFINE sets == net[Propfind].sets
<1> USE DEF SearchSets
<1>1. Propfind \in Requests /\ net[Propfind] \in Expected(Propfind)
  BY DEF IInv, Types, Requests
<1>2. /\ net[Propfind] # Idle
      /\ sets \in SUBSET CollectionSets /\ (sets # {} \/ EmptySets)
  BY <1>1, MessageStates
<1>3. /\ InFlight = {Propfind} /\ Searches = {} /\ subJobCount = 0
      /\ searched = {} /\ succeeded = {} /\ results = 0 /\ started
      /\ error = NO_ERR /\ ~subJobSuccessful /\ mResults = {}
  BY <1>2, PropfindHandled
<1>4. \A r \in Requests : net'[r] = IF r \in sets THEN Sent ELSE Idle
  OBVIOUS
<1>5. InFlight' = sets /\ Searches' = sets
  BY <1>2, <1>4, MessageStates DEF InFlight, Searches, Requests
<1>6. subJobCount' = Cardinality(Searches') /\ subJobCount' \in Nat
  BY <1>2, <1>3, <1>5, PrincipalSearchAssumption, FS_Subset, FS_CardinalityType
<1>7. Types'
  <2>1. \A r \in Requests : net'[r] \in Expected(r)
    BY <1>4 DEF Expected
  <2> QED BY <1>2, <1>3, <1>6, <2>1, TypesPrime DEF IInv, Types, TypeOK
<1>8. Counting'
  BY <1>2, <1>3, <1>5, <1>6, PrincipalSearchAssumption DEF Counting
<1>9. Outcome' /\ FoundInv'
  BY <1>3, <1>5 DEF Outcome, FoundInv
<1> QED BY <1>2, <1>3, <1>5, <1>7, <1>8, <1>9 DEF IInv

LEMMA StepSearchFinished ==
    ASSUME IInv, [Next]_vars, NEW set \in CollectionSets,
           PrincipalPropertySearchFinished(set)
    PROVE  IInv'
<1> DEFINE reply == net[set]
<1>1. /\ set \in Searches /\ set \in searched /\ started
      /\ InFlight = Searches /\ InFlight' = InFlight \ {set}
      /\ Searches' = Searches \ {set}
      /\ subJobCount' = Cardinality(Searches')
      /\ subJobCount' \in Nat
      /\ results = 0
      /\ results' = IF InFlight' = {} THEN 1 ELSE 0
      /\ reply \in Expected(set)
      /\ \A r \in Requests : net'[r] \in Expected(r)
  BY SearchHandled
<1>2. searched' = searched /\ started' = started
  BY DEF PrincipalPropertySearchFinished
<1>3. TypeOK /\ Counting /\ Outcome /\ FoundInv
  BY DEF IInv, Types
<1>4. searched # {} /\ ~(searched \subseteq InFlight')
  BY <1>1
\* What the answer does to the outcome.
<1>5. /\ Outcome' /\ FoundInv' /\ mResults' \subseteq Results
      /\ succeeded' \subseteq searched /\ subJobSuccessful' \in BOOLEAN
      /\ error' \in ErrorNumber /\ latestResponseCode' \in Nat
  <2>1. CASE reply.state = "failed" /\ ReportFailed(reply.status)
    <3> USE DEF ReportFailed
    <3>1. reply.status \in Nat
      BY <1>1, <2>1, MessageStates
    <3>2. Outcome'
      BY <1>2, <1>3, <1>4, <2>1, <3>1, ErrorNumbers DEF Outcome
    <3>3. FoundInv'
      BY <1>3, <2>1 DEF FoundInv, WantedResults, IsWanted
    <3> QED BY <1>3, <2>1, <3>1, <3>2, <3>3, ErrorNumbers DEF TypeOK
  <2>2. ASSUME NEW values \in SUBSET WantedResults(set),
               ReportSucceeded(set, values)
        PROVE  /\ Outcome' /\ FoundInv' /\ mResults' \subseteq Results
               /\ succeeded' \subseteq searched /\ subJobSuccessful' \in BOOLEAN
               /\ error' \in ErrorNumber /\ latestResponseCode' \in Nat
    <3> USE <2>2 DEF ReportSucceeded
    <3>1. Outcome'
      BY <1>2, <1>3, <1>4 DEF Outcome
    <3>2. FoundInv'
      BY <1>3 DEF FoundInv, WantedResults, IsWanted
    <3> QED BY <1>1, <1>3, <3>1, <3>2, ErrorNumbers DEF TypeOK, WantedResults
  <2>3. CASE reply.state = "useless" /\ ReportSucceeded(set, {})
    <3>1. {} \in SUBSET WantedResults(set)
      OBVIOUS
    <3> QED BY <2>2, <2>3, <3>1
  <2>4. CASE reply.state = "found" /\ ReportSucceeded(set, reply.values)
    <3>1. reply.values \in SUBSET WantedResults(set)
      BY <1>1, <2>4, MessageStates
    <3> QED BY <2>2, <2>4, <3>1
  <2> QED BY <2>1, <2>3, <2>4 DEF PrincipalPropertySearchFinished
<1>6. Types'
  <2>1. net' = [r \in Requests |-> net'[r]]
    BY DEF PrincipalPropertySearchFinished, IInv, Types, TypeOK
  <2>2. results' \in Nat /\ started' \in BOOLEAN
        /\ searched' \subseteq CollectionSets
    BY <1>1, <1>2, <1>3 DEF TypeOK
  <2> QED BY <1>1, <1>2, <1>5, <2>1, <2>2, TypesPrime
<1>7. Counting'
  <2>1. Propfind \notin InFlight'
    BY <1>1, PrincipalSearchAssumption DEF Searches
  <2> QED BY <1>1, <1>2, <1>3, <2>1 DEF Counting
<1> QED BY <1>5, <1>6, <1>7 DEF IInv

LEMMA StepIInv == IInv /\ [Next]_vars => IInv'
<1> SUFFICES ASSUME IInv, [Next]_vars PROVE IInv' OBVIOUS
<1>1. CASE UNCHANGED vars
  <2> USE <1>1 DEF vars, jobVars, historyVars, IInv
  <2>1. Types'
    BY DEF Types, TypeOK, Expected, WantedResults, IsWanted
  <2>2. InFlight' = InFlight /\ Searches' = Searches
    BY DEF InFlight, Searches
  <2>3. Counting' /\ Outcome'
    BY <2>2 DEF Counting, Outcome
  <2>4. FoundInv'
    BY DEF FoundInv, WantedResults, IsWanted
  <2> QED BY <2>1, <2>3, <2>4
<1>2. CASE Idling
  BY <1>1, <1>2 DEF Idling
<1>3. ASSUME NEW r \in Requests, Handler(r) PROVE IInv'
  BY <1>3, StepLocatingEnds, StepSearchSets, StepSearchFinished DEF Handler
<1> QED BY <1>1, <1>2, <1>3, StepStart, StepServer DEF Next

(***************************************************************************)
(* The theorems.                                                           *)
(***************************************************************************)

\* The inductive invariant holds in every reachable state.
THEOREM Invariance == Spec => []IInv
BY InitIInv, StepIInv, PTL DEF Spec

\* Every variable stays in its type: the counter never goes below 0.
THEOREM TypeCorrectness == Spec => []TypeOK
<1>1. IInv => TypeOK BY DEF IInv, Types
<1> QED BY <1>1, Invariance, PTL

\* In whatever order the searches are answered, the job succeeds exactly if one
\* of them did, with nothing but what was searched for.
THEOREM OneSuccessDecides == Spec => []OneSuccessSuffices
<1>1. IInv => OneSuccessSuffices
  <2> SUFFICES ASSUME IInv, Done, searched # {}
               PROVE  /\ error = NO_ERR <=> succeeded # {}
                      /\ \A r \in mResults : \E s \in succeeded :
                            \E p \in Directory[s] :
                                IsWanted(p) /\ r[2] \in p[r[1]]
    BY DEF OneSuccessSuffices
  <2>1. InFlight = {}
    BY DEF Done, IInv, Counting
  <2>2. error = NO_ERR <=> succeeded # {}
    BY <2>1 DEF IInv, Outcome
  <2> QED BY <2>2 DEF IInv, FoundInv, WantedResults
<1> QED BY <1>1, Invariance, PTL

\* The error of a search that failed is the one its response code stands for.
THEOREM ErrorsMatchCodes == Spec => []ErrorMatchesCode
<1>1. IInv => ErrorMatchesCode
  BY DEF IInv, Outcome, ErrorMatchesCode
<1> QED BY <1>1, Invariance, PTL

\* The job starts as ResultOnce says and, where every principal-collection-set
\* holds an href, goes on so.
LEMMA InitRO == Init => RO!Init
<1> QED BY DEF Init, RO!Init, InFlight

LEMMA StepRO ==
    ASSUME EmptySets = FALSE
    PROVE  IInv /\ [Next]_vars => [RO!Next]_(RO!vars)
<1> SUFFICES ASSUME IInv, [Next]_vars
             PROVE  RO!Next \/ UNCHANGED RO!vars
  OBVIOUS
<1> USE DEF RO!Next, RO!vars, RO!EmitWhenDone
<1>1. CASE Start
  BY <1>1, StartEffect DEF Start, RO!Start, jobVars, Requests
<1>2. ASSUME NEW r \in Requests, ServerStep(r)
      PROVE  UNCHANGED RO!vars
  BY <1>2, ServerStepEffect DEF jobVars
<1>3. CASE LocatingEnds
  <2>1. /\ Propfind \in InFlight /\ InFlight' = {} /\ InFlight = {Propfind}
        /\ results' = 1 /\ results = 0 /\ started' = started
    BY <1>3, StepLocatingEnds DEF LocatingEnds, IInv, Counting
  <2>2. InFlight' = (InFlight \ {Propfind}) \cup {}
    BY <2>1
  <2> QED BY <2>1, <2>2 DEF RO!Answer, Requests
<1>4. CASE SearchSets
  <2>1. /\ Propfind \in InFlight /\ results' = results /\ started' = started
        /\ InFlight = {Propfind} /\ InFlight' # {}
        /\ InFlight' \in SUBSET Requests
    BY <1>4, StepSearchSets DEF SearchSets, IInv, Counting, Requests
  <2>2. InFlight' = (InFlight \ {Propfind}) \cup InFlight'
    BY <2>1
  <2> QED BY <2>1, <2>2 DEF RO!Answer, Requests
<1>5. ASSUME NEW set \in CollectionSets, PrincipalPropertySearchFinished(set)
      PROVE  RO!Next
  <2>1. /\ set \in InFlight /\ InFlight' = InFlight \ {set}
        /\ results = 0 /\ results' = IF InFlight' = {} THEN 1 ELSE 0
        /\ started' = started
    BY <1>5, SearchHandled DEF PrincipalPropertySearchFinished, Searches
  <2>2. InFlight' = (InFlight \ {set}) \cup {} /\ {} \in SUBSET Requests
    BY <2>1
  <2>3. InFlight' \in {(InFlight \ {set}) \cup more : more \in SUBSET Requests}
    BY <2>2
  <2>4. results' = IF InFlight' = {} THEN results + 1 ELSE results
    BY <2>1
  <2>5. set \in Requests
    BY <1>5 DEF Requests
  <2> QED BY <2>1, <2>3, <2>4, <2>5 DEF RO!Answer
<1>6. CASE UNCHANGED vars
  BY <1>6 DEF vars, jobVars, InFlight
<1> QED BY <1>1, <1>2, <1>3, <1>4, <1>5, <1>6 DEF Next, Handler, Idling

\* Where every principal-collection-set holds an href, the job implements
\* ResultOnce: result() is emitted exactly once, by the last handler.
THEOREM Implementation ==
    ASSUME EmptySets = FALSE
    PROVE  Spec => DeliversOneResult
<1>1. IInv /\ [Next]_vars => [RO!Next]_(RO!vars)
  BY StepRO
<1> QED BY <1>1, InitRO, Invariance, PTL DEF Spec, DeliversOneResult, RO!Spec

\* There, too, the application has heard of the job once if nothing is left in
\* flight, and never before: it never waits for a job that waits for nothing.
THEOREM ResultComesOnce ==
    ASSUME EmptySets = FALSE
    PROVE  Spec => []RO!ResultExactlyOnce
<1> DEFINE Once == /\ RO!ResultExactlyOnce
                   /\ InFlight # {} => started = TRUE
<1> USE DEF RO!ResultExactlyOnce
<1>1. Init => Once
  BY InitRO DEF RO!Init
<1>2. IInv /\ Once /\ [Next]_vars => Once'
  <2> SUFFICES ASSUME IInv, Once, [Next]_vars
               PROVE  Once'
    OBVIOUS
  <2>1. CASE RO!Start
    BY <2>1 DEF RO!Start, RO!EmitWhenDone
  <2>2. ASSUME NEW r \in Requests, RO!Answer(r)
        PROVE  Once'
    BY <2>2 DEF RO!Answer, RO!EmitWhenDone
  <2>3. CASE UNCHANGED RO!vars
    BY <2>3 DEF RO!vars
  <2> QED BY <2>1, <2>2, <2>3, StepRO DEF RO!Next
<1>3. Once => RO!ResultExactlyOnce
  OBVIOUS
<1> QED BY <1>1, <1>2, <1>3, Invariance, PTL DEF Spec

=============================================================================
