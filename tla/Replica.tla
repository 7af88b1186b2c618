------------------------------ MODULE Replica -------------------------------
(***************************************************************************)
(* What incremental synchronization promises an application, apart from    *)
(* requests, answers and what goes wrong with them: it holds a copy of a   *)
(* collection and a point in the collection's history, its token.  What    *)
(* last changed up to that point is in the copy as it is in the            *)
(* collection.  The point moves forward only, and only together with the   *)
(* copy, unless the application starts again from nothing.                 *)
(***************************************************************************)
EXTENDS Integers

CONSTANTS
    Ids,                \* the members a collection may have
    Hidden              \* those that are not copied

VARIABLES
    server, changedAt,  \* the collection: the version of each member, or
                        \* Nothing, and when it last changed
    clock,              \* the time of the last change
    mirror, token       \* the copy, and the point up to which it is right

vars == <<server, changedAt, clock, mirror, token>>

Nothing == 0

Right(id) == IF id \in Hidden THEN Nothing ELSE server[id]

Init ==
    /\ server \in [Ids -> {Nothing, 1}]
    /\ changedAt = [id \in Ids |-> 1]
    /\ clock = 1
    /\ mirror = [id \in Ids |-> Nothing]
    /\ token = Nothing

Change(id) ==
    /\ clock' = clock + 1
    /\ \E version \in {Nothing, clock'} : server' = [server EXCEPT ![id] = version]
    /\ changedAt' = [changedAt EXCEPT ![id] = clock']
    /\ UNCHANGED <<mirror, token>>

\* The copy may hold any version of a member that changed after the new token.
Sync ==
    /\ token' \in token .. clock
    /\ mirror' \in [Ids -> Nat]
    /\ \A id \in Ids : changedAt[id] <= token' => mirror'[id] = Right(id)
    /\ UNCHANGED <<server, changedAt, clock>>

StartAgain ==
    /\ token' = Nothing
    /\ UNCHANGED <<server, changedAt, clock, mirror>>

Next == Sync \/ StartAgain \/ \E id \in Ids : Change(id)

Spec == Init /\ [][Next]_vars

=============================================================================
