----------------------------- MODULE MCPushJobs -----------------------------
(* Two applications, registrations on the host of the collection and on    *)
(* another one.                                                            *)
EXTENDS PushJobs

CONSTANTS c1, c2

MCCollectionUrl == [host |-> "dav", path |-> "calendar"]
MCRegistrations ==
    { [host |-> "dav", path |-> "r1"], [host |-> "push", path |-> "r2"] }

=============================================================================
