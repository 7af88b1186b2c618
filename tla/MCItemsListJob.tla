--------------------------- MODULE MCItemsListJob ---------------------------
(* Instances of ItemsListJob: the event and todo queries of CalDAV with a   *)
(* time range (the journal query is left out to keep the instance small),  *)
(* an event inside the range and a todo outside.                           *)
EXTENDS ItemsListJob, TLC

CONSTANTS i1, i2, e1, e2

P == INSTANCE Protocols

CaldavQueries ==
    {q \in P!ItemsQueries("CalDav", TRUE) : q.filter # {"vjournal"}}
MCQueries == {q.mimeType : q \in CaldavQueries}

\* What the members of the collection are.
Comp == i1 :> "vevent" @@ i2 :> "vtodo"
In == i1 :> TRUE @@ i2 :> FALSE

QueryOf(id) == CHOOSE q \in CaldavQueries : P!QueryMatches(q, Comp[id], TRUE)
MCTypeOf == [id \in {i1, i2} |-> QueryOf(id).mimeType]
MCInRange == {id \in {i1, i2} : P!QueryMatches(QueryOf(id), Comp[id], In[id])}

\* The two ETags are interchangeable in every safety property.
EtagSymmetry == Permutations({e1, e2})

=============================================================================
