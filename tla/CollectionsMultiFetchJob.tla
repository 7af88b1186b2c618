---------------------- MODULE CollectionsMultiFetchJob ----------------------
(***************************************************************************)
(* DavCollectionsMultiFetchJob                                             *)
(* (src/src/common/davcollectionsmultifetchjob.cpp) over the jobs of       *)
(* CollectionsFetchJob, its subjobs: it starts them together, takes each   *)
(* one's result in the step that emits it, and emits its own result when   *)
(* no subjob is left.  The subjobs' collectionDiscovered() signals are     *)
(* forwarded as they come.                                                 *)
(***************************************************************************)
EXTENDS CollectionsFetchJob

VARIABLES
    multiStarted,
    subjobs,            \* SUBSET Sources
    multiError,         \* NO_ERR or a subjob's error
    multiCollections,   \* {<<s, c>>}: c is in the list, by subjob s
    multiResults        \* how often result() was emitted

multiVars == <<multiStarted, subjobs, multiError, multiCollections, multiResults>>
allVars == <<vars, multiVars>>

MultiTypeOK ==
    /\ TypeOK
    /\ multiStarted \in BOOLEAN
    /\ subjobs \subseteq Sources
    /\ multiError \in ErrorNumber
    /\ multiCollections \subseteq Sources \X Collections
    /\ multiResults \in Nat

\* The constructor adds one subjob per URL.
MultiInit ==
    /\ Init
    /\ multiStarted = FALSE
    /\ subjobs = Sources
    /\ multiError = NO_ERR
    /\ multiCollections = {}
    /\ multiResults = 0

\* DavCollectionsMultiFetchJob::start()
MultiStart ==
    /\ ~multiStarted
    /\ multiStarted' = TRUE
    /\ multiResults' = IF subjobs = {} THEN multiResults + 1 ELSE multiResults
    /\ job' = [s \in Sources |-> Started(s)]
    /\ net' = [s \in Sources |-> Sends(net[s], {FirstRequest(s)})]
    /\ UNCHANGED <<misled, failures, subjobs, multiError, multiCollections>>

\* Faulty variants: the first error ends the job, as in KCompositeJob; an
\* error makes the job pass over later subjobs; a failed subjob is not removed.
SlotResultEndsOnError(s) ==
    /\ multiError' = IF multiError = NO_ERR THEN job'[s].error ELSE multiError
    /\ UNCHANGED <<multiStarted, multiCollections>>
    /\ subjobs' = subjobs \ {s}
    /\ multiResults' = IF subjobs' = {} \/ job'[s].error # NO_ERR
                       THEN multiResults + 1 ELSE multiResults
SlotResultNothingAfterError(s) ==
    /\ multiError' = IF multiError = NO_ERR THEN job'[s].error ELSE multiError
    /\ multiCollections' =
          IF multiError' # NO_ERR THEN multiCollections
          ELSE multiCollections
                 \cup {<<s, c>> : c \in {d \in Collections : job'[s].collections[d] > 0}}
    /\ subjobs' = subjobs \ {s}
    /\ multiResults' = IF subjobs' = {} THEN multiResults + 1 ELSE multiResults
    /\ UNCHANGED multiStarted
SlotResultKeepsFailed(s) ==
    /\ multiError' = IF multiError = NO_ERR THEN job'[s].error ELSE multiError
    /\ UNCHANGED <<multiStarted, multiCollections>>
    /\ subjobs' = IF job'[s].error # NO_ERR THEN subjobs ELSE subjobs \ {s}
    /\ multiResults' = IF subjobs' = {} THEN multiResults + 1 ELSE multiResults

\* slotResult(job), in the step in which subjob s emitted its result.
SlotResult(s) ==
    /\ multiError' = IF multiError = NO_ERR THEN job'[s].error ELSE multiError
    /\ multiCollections' =
          IF job'[s].error # NO_ERR THEN multiCollections
          ELSE multiCollections
                 \cup {<<s, c>> : c \in {d \in Collections : job'[s].collections[d] > 0}}
    /\ subjobs' = subjobs \ {s}
    /\ multiResults' = IF subjobs' = {} THEN multiResults + 1 ELSE multiResults
    /\ UNCHANGED multiStarted

SubjobStep(s) ==
    /\ Step(s)
    /\ IF job'[s].results > job[s].results THEN SlotResult(s)
                                           ELSE UNCHANGED multiVars

MultiFinished == multiResults > 0 /\ UNCHANGED allVars

MultiNext ==
    \/ MultiStart
    \/ \E s \in Sources : SubjobStep(s)
    \/ MultiFinished

MultiSpec == MultiInit /\ [][MultiNext]_allVars

\* Every request is answered or given up in the end, the event loop delivers
\* every finished reply, and a server does not name principals forever
\* (MaxRounds).
MultiFairness ==
    /\ WF_allVars(MultiStart)
    /\ \A s \in Sources : WF_allVars(SubjobStep(s))

MultiFairSpec == MultiSpec /\ MultiFairness

-----------------------------------------------------------------------------
\* The job returns exactly what its successful subjobs returned, and reports
\* an error exactly if a subjob failed, one that a subjob reported: neither
\* does a failing URL take away the collections of the others nor is it
\* passed over.
CombinesSubjobs ==
    multiResults > 0 =>
        /\ multiCollections =
              UNION {{s} \X Returned(s) : s \in {x \in Sources : Succeeded(x)}}
        /\ multiError \in {job[s].error : s \in Sources} \cup {NO_ERR}
        /\ multiError = NO_ERR <=> \A s \in Sources : Succeeded(s)

\* Subjobs that go on after another one failed never report to a finished
\* job: result() is emitted exactly once, after the last of them.
MRO == INSTANCE ResultOnce
          WITH Requests <- Sources, started <- multiStarted,
               outstanding <- IF multiStarted THEN subjobs ELSE {},
               results <- multiResults
MultiDeliversOneResult == MRO!Spec

\* A started job ends.
MultiTerminates == multiStarted ~> multiResults > 0

=============================================================================
