--------------------- MODULE MCCollectionsMultiFetchJob ---------------------
(* Three configured URLs: a CalDAV principal with two home sets that share  *)
(* a calendar, a CardDAV address book without home sets, and a GroupDAV    *)
(* folder.  Some listings also hold an inbox, no collection to any of them. *)
EXTENDS CollectionsMultiFetchJob, TLC

CONSTANTS s1, s2, s3, h1, h2, c1, c2, book, folder, inbox

MCProtocolOf == s1 :> "CalDav" @@ s2 :> "CardDav" @@ s3 :> "GroupDav"
MCResourceType ==
    c1 :> {"collection", "calendar"} @@ c2 :> {"collection", "calendar"}
    @@ book :> {"collection", "addressbook"}
    @@ folder :> {"collection", "vcard-collection"}
    @@ inbox :> {"collection", "schedule-inbox"}

MCAdvertised == s1 :> {h1, h2} @@ s2 :> {} @@ s3 :> {}
Lists(first, second, own) == h1 :> first @@ h2 :> second @@ Direct :> own
MCContents ==
    s1 :> Lists({c1, c2, inbox}, {c2}, {})
    @@ s2 :> Lists({}, {}, {book})
    @@ s3 :> Lists({}, {}, {folder, inbox})

=============================================================================
