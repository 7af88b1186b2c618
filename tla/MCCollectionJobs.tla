-------------------------- MODULE MCCollectionJobs --------------------------
(* Instances of CollectionJobs: two jobs, two URLs and a third that is     *)
(* redirected to the first, one other client; collections with a           *)
(* translucent and a solid colour, and with types that an MKCOL cannot     *)
(* carry.                                                                  *)
EXTENDS CollectionJobs, TLC

CONSTANTS j1, j2, u1, u2, u3, o1

MCHome == u1 :> u1 @@ u2 :> u2 @@ u3 :> u1

Translucent == [rgb |-> "00ff00", alpha |-> "80"]
Solid == [rgb |-> "ff0000", alpha |-> Opaque]

MCNewCollections ==
    { DavCollection("work", Translucent, {"Events", "Todos", "Contacts", "Timezone"}),
      DavCollection("zone", Solid, {"Timezone"}) }

\* A write privilege that is less than all of it; a server without ACLs.
MCGranted == u1 :> { [name |-> "read", parts |-> {}],
                     [name |-> "write", parts |-> {"write-content", "bind"}] }
MCPush == u1 :> [topic |-> "t1", transports |-> "web-push" :> "key"]
       @@ u2 :> [topic |-> "t2", transports |-> <<>>]
       @@ u3 :> [topic |-> NoText, transports |-> <<>>]

\* A new name; a new colour with the name removed.
MCChanges ==
    { [set |-> "displayname" :> "new", remove |-> {}],
      [set |-> "calendar-color" :> <<"0000ff">>, remove |-> {"displayname"}] }

MCKinds == j1 :> {"create"} @@ j2 :> {"modify", "delete"}

=============================================================================
