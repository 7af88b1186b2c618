----------------------------- MODULE OneEffect -----------------------------
(***************************************************************************)
(* What every KDAV job that changes something on the server promises the   *)
(* application that starts it.  However often its request is redirected    *)
(* and whatever becomes of the answers, it takes effect at most once,      *)
(* after start() and before result(); and result() does not deceive: a job *)
(* that was done took effect, one that was refused (or that had nothing to *)
(* change) did not.  Only after an error that is no refusal, such as a     *)
(* broken connection, the application cannot tell.                         *)
(***************************************************************************)
CONSTANT None           \* the effect of a request that has none

VARIABLES
    phase,              \* "new", "running" or "ended"
    effect,             \* what the request of the job did on the server
    outcome             \* what result() says

vars == <<phase, effect, outcome>>

Init ==
    /\ phase = "new"
    /\ effect = None
    /\ outcome = "pending"

Start ==
    /\ phase = "new" /\ phase' = "running"
    /\ UNCHANGED <<effect, outcome>>

TakesEffect ==
    /\ phase = "running" /\ effect = None
    /\ effect' # None
    /\ UNCHANGED <<phase, outcome>>

\* A job may end in start(), having sent nothing.
Ends ==
    /\ phase \in {"new", "running"} /\ phase' = "ended"
    /\ outcome' \in {"done", "nothing", "unknown"}
    /\ outcome' = "done" => effect # None
    /\ outcome' = "nothing" => effect = None
    /\ UNCHANGED effect

Next == Start \/ TakesEffect \/ Ends

Spec == Init /\ [][Next]_vars

=============================================================================
