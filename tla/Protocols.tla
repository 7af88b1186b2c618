------------------------------ MODULE Protocols ------------------------------
(***************************************************************************)
(* What the three protocols (src/src/protocols) ask of a server and what   *)
(* they make of its answers, as DavManager::davProtocol() hands them to    *)
(* the jobs.                                                               *)
(*                                                                         *)
(* An XML element is its local name: no two of the names used here differ  *)
(* by namespace only.  A query is a record of what a server can tell       *)
(* apart: the method, the properties asked for and the filter.             *)
(***************************************************************************)
EXTENDS Integers, Sequences, FiniteSets

Protocol == {"CalDav", "CardDav", "GroupDav"}

\* An element that is absent, an empty string.
NoText == "none"

-----------------------------------------------------------------------------
(* What a protocol can do                                                  *)

SupportsPrincipals(p) == p \in {"CalDav", "CardDav"}

UseReport(p) == p = "CalDav"
ListMethod(p) == IF UseReport(p) THEN "REPORT" ELSE "PROPFIND"

\* The two that are a DavMultigetProtocol.
UseMultiget(p) == p \in {"CalDav", "CardDav"}

PrincipalHomeSet(p) ==
    CASE p = "CalDav"   -> "calendar-home-set"
      [] p = "CardDav"  -> "addressbook-home-set"
      [] p = "GroupDav" -> NoText

\* What DavPrincipalHomeSetsFetchJob asks for.
HomeSetsQuery(p, homeSetsOnly) ==
    {PrincipalHomeSet(p)}
    \cup (IF homeSetsOnly THEN {} ELSE {"current-user-principal", "principal-URL"})

-----------------------------------------------------------------------------
(* Listing the collections below a URL                                     *)

CaldavCollectionQuery ==
    {"displayname", "resourcetype", "calendar-color",
     "supported-calendar-component-set", "current-user-privilege-set",
     "getctag", "sync-token", "transports", "topic", "supported-triggers"}

CarddavCollectionQuery ==
    {"displayname", "resourcetype", "getctag", "sync-token"}

GroupdavCollectionQuery == {"displayname", "resourcetype", "sync-token"}

CollectionsQuery(p) ==
    CASE p = "CalDav"   -> CaldavCollectionQuery
      [] p = "CardDav"  -> CarddavCollectionQuery
      [] p = "GroupDav" -> GroupdavCollectionQuery

GroupdavCollections ==
    [type \in {"vevent-collection", "vtodo-collection", "vcard-collection"} |->
        CASE type = "vevent-collection" -> "Events"
          [] type = "vtodo-collection"  -> "Todos"
          [] type = "vcard-collection"  -> "Contacts"]

\* Whether a resource of this type is a collection of the protocol's.
ContainsCollection(p, resourcetype) ==
    CASE p = "CalDav"   -> "calendar" \in resourcetype
      [] p = "CardDav"  -> "addressbook" \in resourcetype
      [] p = "GroupDav" -> resourcetype \cap DOMAIN GroupdavCollections # {}

CompType ==
    [comp \in {"vcalendar", "vevent", "vtodo", "vfreebusy", "vjournal", "vtimezone"} |->
        CASE comp = "vcalendar" -> "Calendar"
          [] comp = "vevent"    -> "Events"
          [] comp = "vtodo"     -> "Todos"
          [] comp = "vfreebusy" -> "FreeBusy"
          [] comp = "vjournal"  -> "Journal"
          [] comp = "vtimezone" -> "Timezone"]

\* No comp element at all means every type; a comp nobody knows means none.
CaldavContentTypes(comps) ==
    IF comps = {} THEN {CompType[comp] : comp \in DOMAIN CompType}
    ELSE {CompType[comp] : comp \in comps \cap DOMAIN CompType}

GroupdavContentTypes(resourcetype) ==
    {GroupdavCollections[type] : type \in resourcetype \cap DOMAIN GroupdavCollections}

CollectionContentTypes(p, resourcetype, comps) ==
    CASE p = "CalDav"   -> CaldavContentTypes(comps)
      [] p = "CardDav"  -> {"Contacts"}
      [] p = "GroupDav" -> GroupdavContentTypes(resourcetype)

-----------------------------------------------------------------------------
(* Listing and fetching the items of a collection                          *)

\* A CalDAV REPORT: the ETags and resource types of what its comp-filter
\* matches, in the time range if one is set.
CaldavListQuery(comp, ranged, mimeType) ==
    [method |-> ListMethod("CalDav"), props |-> {"getetag", "resourcetype"},
     filter |-> {comp}, ranged |-> ranged, mimeType |-> mimeType]

CaldavListEventQuery(ranged) == CaldavListQuery("vevent", ranged, "calendar.event")
CaldavListTodoQuery(ranged) == CaldavListQuery("vtodo", ranged, "calendar.todo")
CaldavListJournalQuery(ranged) ==
    CaldavListQuery("vjournal", ranged, "calendar.journal")

\* No filter: every member of the collection.
AllItemsQuery(p, mimeType) ==
    [method |-> ListMethod(p), props |-> {"displayname", "resourcetype", "getetag"},
     filter |-> {}, ranged |-> FALSE, mimeType |-> mimeType]
CarddavListItemsQuery == AllItemsQuery("CardDav", "text/directory")
GroupdavItemQuery == AllItemsQuery("GroupDav", NoText)

ItemsQueries(p, ranged) ==
    CASE p = "CalDav"   -> {CaldavListEventQuery(ranged), CaldavListTodoQuery(ranged),
                            CaldavListJournalQuery(ranged)}
      [] p = "CardDav"  -> {CarddavListItemsQuery}
      [] p = "GroupDav" -> {GroupdavItemQuery}

\* Whether an item belongs in the answer to a query.
QueryMatches(query, comp, inRange) ==
    /\ query.filter = {} \/ comp \in query.filter
    /\ query.ranged => inRange

\* The document for no URLs is empty: it asks for nothing.
MultigetQuery(props, urls) ==
    IF urls = {} THEN [props |-> {}, hrefs |-> {}]
                 ELSE [props |-> props, hrefs |-> urls]
CaldavMultigetQuery(urls) == MultigetQuery({"getetag", "calendar-data"}, urls)
CarddavMultigetQuery(urls) == MultigetQuery({"getetag", "address-data"}, urls)

ItemsReportQuery(p, urls) ==
    IF p = "CalDav" THEN CaldavMultigetQuery(urls) ELSE CarddavMultigetQuery(urls)

DataTagName(p) == IF p = "CalDav" THEN "calendar-data" ELSE "address-data"

-----------------------------------------------------------------------------
(* Creating a collection                                                   *)

Opaque == "ff"
NoColor == [rgb |-> NoText, alpha |-> NoText]

\* Faulty variant: as QColor prints it, #AARRGGBB.
WriteColorAlphaFirst(color) ==
    CASE color = NoColor      -> <<>>
      [] color.alpha = Opaque -> <<color.rgb>>
      [] OTHER                -> <<color.alpha, color.rgb>>

\* A colour on the wire is #RRGGBB or #RRGGBBAA: a sequence of its parts, and
\* the empty one if there is no such element.
WriteColor(color) ==
    CASE color = NoColor      -> <<>>
      [] color.alpha = Opaque -> <<color.rgb>>
      [] OTHER                -> <<color.rgb, color.alpha>>

\* The types an MKCOL writes a comp for, in the code's order.
WrittenComps == {"vcalendar", "vevent", "vtodo", "vfreebusy", "vjournal"}

\* CaldavProtocol::writeMkCol()
CaldavMkCol(collection) ==
    [resourcetype |-> {"collection", "calendar"},
     displayname |-> collection.displayName,
     color |-> WriteColor(collection.color),
     comps |-> {comp \in WrittenComps : CompType[comp] \in collection.contentTypes}]

\* CarddavProtocol::writeMkCol()
CarddavMkCol(collection) ==
    [resourcetype |-> {"collection", "addressbook"},
     displayname |-> collection.displayName, color |-> <<>>, comps |-> {}]

WriteMkCol(p, collection) ==
    IF p = "CalDav" THEN CaldavMkCol(collection) ELSE CarddavMkCol(collection)

=============================================================================
