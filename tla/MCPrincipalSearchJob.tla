------------------------ MODULE MCPrincipalSearchJob ------------------------
(* Three principal collection sets: users, groups and an empty one.  The   *)
(* text that is searched for is a name here and an address there.          *)
EXTENDS PrincipalSearchJob, TLC

CONSTANTS users, groups, rooms, v1, v2, text, other

Person(names, addresses, homeSets) ==
    [n \in {"displayname", "calendar-user-address-set", "calendar-home-set"} |->
        CASE n = "displayname" -> names
          [] n = "calendar-user-address-set" -> addresses
          [] n = "calendar-home-set" -> homeSets]

MCDirectory ==
    users :> {Person({other}, {text}, {v2}), Person({text}, {other}, {v1})}
 @@ groups :> {Person({text}, {}, {v1, v2}), Person({text}, {text}, {})}
 @@ rooms :> {}

=============================================================================
