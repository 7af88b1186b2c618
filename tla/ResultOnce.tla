----------------------------- MODULE ResultOnce -----------------------------
(***************************************************************************)
(* What every KDAV job that fans out promises its caller, apart from the   *)
(* data it returns: start() puts some requests in flight, an answer may    *)
(* put more in flight, and result() is emitted exactly once, in the step   *)
(* that finds nothing left in flight (at once when there was nothing to    *)
(* ask).  The jobs count with an unsigned mSubJobCount and emit when it    *)
(* reaches 0; this module keeps the set itself.                            *)
(***************************************************************************)
EXTENDS Naturals

CONSTANT Requests       \* whatever identifies a request of the job

VARIABLES
    started,            \* start() was called
    outstanding,        \* the requests not answered yet
    results             \* how often result() was emitted

vars == <<started, outstanding, results>>

TypeOK ==
    /\ started \in BOOLEAN
    /\ outstanding \subseteq Requests
    /\ results \in Nat

Init ==
    /\ started = FALSE
    /\ outstanding = {}
    /\ results = 0

EmitWhenDone(left) == results' = IF left = {} THEN results + 1 ELSE results

Start ==
    /\ ~started
    /\ started' = TRUE
    /\ outstanding' \in SUBSET Requests
    /\ EmitWhenDone(outstanding')

Answer(r) ==
    /\ r \in outstanding
    /\ outstanding' \in {(outstanding \ {r}) \cup more : more \in SUBSET Requests}
    /\ EmitWhenDone(outstanding')
    /\ UNCHANGED started

Next == Start \/ \E r \in Requests : Answer(r)

Spec == Init /\ [][Next]_vars

\* A job that was started and has nothing in flight has said so, once; a job
\* that has not been started, or still waits, has said nothing.
ResultExactlyOnce ==
    results = IF started /\ outstanding = {} THEN 1 ELSE 0

=============================================================================
