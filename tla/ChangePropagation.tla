------------------------- MODULE ChangePropagation -------------------------
(***************************************************************************)
(* How a change of a system object in the database reaches what is derived  *)
(* from it: the SystemObjectCache (its name, and whether it is retired) and  *)
(* the Solr index.                                                          *)
(*                                                                         *)
(* DBObject.update and its like start an audit that nobody awaits; the       *)
(* event it sends makes EventConsumerDB flush the cache and schedule the      *)
(* indexing of the object, 30 s later, together with others.  A full index    *)
(* starts every four hours.  None of these excludes another.                 *)
(*                                                                         *)
(* Hierarchies have two levels here: Links joins parents to children.        *)
(***************************************************************************)
EXTENDS Naturals, FiniteSets

CONSTANTS
    Objects,        \* system objects
    Names,          \* their names
    FirstName,      \* the name all objects begin with
    Links,          \* the SystemObjectXrefs that may be made, <<parent, child>>
    Lookups,        \* calls of getObjectName
    LookedUp,       \* bound: the objects whose names they ask for
    Indexers,       \* calls of objectIndexer
    MaxChanges,     \* bound on the changes made
    MaxFailures,    \* bound on the requests to Solr that fail
    None            \* nothing

ASSUME ConstantsAssumption ==
    /\ Links \subseteq Objects \X Objects
    /\ \A l, k \in Links : l[1] /= k[2]
    /\ FirstName \in Names
    /\ LookedUp \subseteq Objects
    /\ MaxChanges \in Nat /\ MaxFailures \in Nat
    /\ None \notin Objects \cup Names

VARIABLES
    row,            \* the object's own row: its Name and SystemObject.Retired
    xref,           \* the SystemObjectXref rows
    retiring,       \* objects whose updateRetired has not written yet
    events,         \* the audit events, in the order of their changes
    names,          \* SystemObjectCache.systemIDToNameMap
    info,           \* Retired in SystemObjectCache.objectIDToSystemMap
    lookup,         \* the calls of getObjectName under way
    objectIndexSet, \* NavigationFactory.objectIndexSet, empty for null; else a timer runs
    indexer,        \* the calls of objectIndexer under way
    fullIndexUnderway, \* IndexSolr.fullIndexUnderway
    full,           \* the full index under way
    solr,           \* the documents of the index
    failures,       \* requests to Solr that have failed
    overlapped,     \* history: objects that changed while they were being read for the cache
    crossed         \* history: objects indexed while another indexing of them was under way

dbVars == <<row, xref, retiring>>
cacheVars == <<names, info>>
indexVars == <<objectIndexSet, indexer, fullIndexUnderway, full, solr, failures, crossed>>
vars == <<dbVars, events, cacheVars, lookup, overlapped, indexVars>>

-----------------------------------------------------------------------------
(* What the index knows of an object *)

Parents(o, links) == {p \in Objects : <<p, o>> \in links}
Children(o, links) == {c \in Objects : <<o, c>> \in links}

\* What an ObjectGraph tells of an object's position.  Below is what it reports to
\* the ancestors; the graph of an object with parents stops at the object.
Graph(o) == [parents |-> Parents(o, xref), retired |-> info[o],
             below |-> {o} \cup IF Parents(o, xref) = {} THEN Children(o, xref) ELSE {}]

\* The graph of a full index knows all links.
FullGraph == [o \in Objects |-> [parents |-> Parents(o, xref), retired |-> info[o],
                                 below |-> {o} \cup Children(o, xref)]]

\* handleObject: the names come from the rows, not from the cache.
Document(o, graph) == [name    |-> row[o].name,
                       retired |-> graph.retired,
                       above   |-> {<<p, row[p].name>> : p \in graph.parents},
                       below   |-> graph.below]

NoGraph == [parents |-> {}, retired |-> FALSE, below |-> {}]

\* An indexer between two objects: idle when none is left.
Between(todo) == [at |-> IF todo = {} THEN "idle" ELSE "next", todo |-> todo,
                  object |-> None, graph |-> NoGraph, doc |-> None]
Idle == Between({})
IdleFull == [at |-> "idle", graph |-> None, docs |-> None]
IdleLookup == [at |-> "idle", object |-> None, name |-> None]

-----------------------------------------------------------------------------
(* Events *)

\* (after: history, whether the object was retired when it changed)
Event(o, kind) == [object |-> o, kind |-> kind, at |-> "sent", retired |-> FALSE, after |-> row[o].retired]

Changes == DOMAIN events
MayChange == Cardinality(Changes) < MaxChanges
Send(o, kind) == events' = [n \in 1..(Cardinality(Changes) + 1) |->
                               IF n \in Changes THEN events[n] ELSE Event(o, kind)]

\* The reads of an object that will end up in the cache.
BeingRead(o) ==
    \/ \E l \in Lookups : lookup[l].at = "read" /\ lookup[l].object = o
    \/ \E n \in Changes : events[n].at = "read" /\ events[n].object = o

Touch(o) == overlapped' = IF BeingRead(o) THEN overlapped \cup {o} ELSE overlapped

Init ==
    /\ row = [o \in Objects |-> [name |-> FirstName, retired |-> FALSE]]
    /\ xref = {} /\ retiring = {} /\ events = <<>>
    /\ names = [o \in Objects |-> None]
    /\ info = [o \in Objects |-> row[o].retired]
    /\ lookup = [l \in Lookups |-> IdleLookup]
    /\ objectIndexSet = {}
    /\ indexer = [i \in Indexers |-> Idle]
    /\ fullIndexUnderway = FALSE /\ full = IdleFull
    /\ solr = [o \in Objects |-> Document(o, FullGraph[o])]
    /\ failures = 0 /\ overlapped = {} /\ crossed = {}

-----------------------------------------------------------------------------
(* Changes *)

\* DBObject.update: the row is written, then the audit starts.
Update(o, name) ==
    /\ MayChange
    /\ name /= row[o].name
    /\ row' = [row EXCEPT ![o] = [@ EXCEPT !.name = name]]
    /\ Send(o, "object")
    /\ Touch(o)
    /\ UNCHANGED <<xref, retiring, cacheVars, lookup, indexVars>>

\* updateRetired: the audit starts, then the row is written.
RetireObject(o) ==
    /\ MayChange
    /\ ~row[o].retired /\ o \notin retiring
    /\ retiring' = retiring \cup {o}
    /\ Send(o, "SystemObject")
    /\ UNCHANGED <<row, xref, cacheVars, lookup, overlapped, indexVars>>

UpdateRetired(o) ==
    /\ o \in retiring
    /\ retiring' = retiring \ {o}
    /\ row' = [row EXCEPT ![o] = [@ EXCEPT !.retired = TRUE]]
    /\ Touch(o)
    /\ UNCHANGED <<xref, events, cacheVars, lookup, indexVars>>

\* SystemObjectXref.create.
CreateXref(l) ==
    /\ MayChange
    /\ l \notin xref
    /\ xref' = xref \cup {l}
    /\ Send(l[2], "SystemObjectXref")
    /\ UNCHANGED <<row, retiring, cacheVars, lookup, overlapped, indexVars>>

-----------------------------------------------------------------------------
(* EventConsumerDB *)

\* Mutant: an object is added only when the set is made.
ScheduleFirst(o) == objectIndexSet' = IF objectIndexSet = {} THEN {o} ELSE objectIndexSet

\* scheduleObjectIndexing
Schedule(o) == objectIndexSet' = objectIndexSet \cup {o}

\* A SystemObject is not one of the objects whose idSystemObject the cache finds,
\* so that nothing follows.
IgnoreEvent(n) ==
    /\ events[n].at = "sent" /\ events[n].kind = "SystemObject"
    /\ events' = [events EXCEPT ![n] = [@ EXCEPT !.at = "done"]]
    /\ UNCHANGED <<dbVars, cacheVars, lookup, overlapped, indexVars>>

\* The derived object of an xref is indexed; the cache is not concerned.
HandleXref(n) ==
    /\ events[n].at = "sent" /\ events[n].kind = "SystemObjectXref"
    /\ events' = [events EXCEPT ![n] = [@ EXCEPT !.at = "done"]]
    /\ Schedule(events[n].object)
    /\ UNCHANGED <<dbVars, cacheVars, lookup, overlapped,
                   indexer, fullIndexUnderway, full, solr, failures, crossed>>

\* flushObject reads the SystemObject ...
ReadSystemObject(n) ==
    /\ events[n].at = "sent" /\ events[n].kind = "object"
    /\ events' = [events EXCEPT ![n] = [@ EXCEPT !.at = "read", !.retired = row[events[n].object].retired]]
    /\ UNCHANGED <<dbVars, cacheVars, lookup, overlapped, indexVars>>

\* Mutant: the name stays in the cache.
FlushObjectKeepingName(n) ==
    /\ events[n].at = "read"
    /\ events' = [events EXCEPT ![n] = [@ EXCEPT !.at = "done"]]
    /\ info' = [info EXCEPT ![events[n].object] = events[n].retired]
    /\ Schedule(events[n].object)
    /\ UNCHANGED <<dbVars, names, lookup, overlapped, indexer, fullIndexUnderway, full, solr, failures, crossed>>

\* Mutant: only the name is flushed.
FlushObjectName(n) ==
    /\ events[n].at = "read"
    /\ events' = [events EXCEPT ![n] = [@ EXCEPT !.at = "done"]]
    /\ names' = [names EXCEPT ![events[n].object] = None]
    /\ Schedule(events[n].object)
    /\ UNCHANGED <<dbVars, info, lookup, overlapped, indexer, fullIndexUnderway, full, solr, failures, crossed>>

\* ... and updates the cache; then the object is scheduled.
FlushObject(n) ==
    /\ events[n].at = "read"
    /\ events' = [events EXCEPT ![n] = [@ EXCEPT !.at = "done"]]
    /\ info' = [info EXCEPT ![events[n].object] = events[n].retired]
    /\ names' = [names EXCEPT ![events[n].object] = None]
    /\ Schedule(events[n].object)
    /\ UNCHANGED <<dbVars, lookup, overlapped, indexer, fullIndexUnderway, full, solr, failures, crossed>>

HandleEvent == \E n \in Changes :
    IgnoreEvent(n) \/ HandleXref(n) \/ ReadSystemObject(n) \/ FlushObject(n)

-----------------------------------------------------------------------------
(* Lookups *)

\* A name that is not in the cache is read from the object's row ...
ReadName(l, o) ==
    /\ lookup[l].at = "idle"
    /\ names[o] = None
    /\ lookup' = [lookup EXCEPT ![l] = [at |-> "read", object |-> o, name |-> row[o].name]]
    /\ UNCHANGED <<dbVars, events, cacheVars, overlapped, indexVars>>

\* ... and stored when the answer is there.
StoreName(l) ==
    /\ lookup[l].at = "read"
    /\ names' = [names EXCEPT ![lookup[l].object] = lookup[l].name]
    /\ lookup' = [lookup EXCEPT ![l] = IdleLookup]
    /\ UNCHANGED <<dbVars, events, info, overlapped, indexVars>>

-----------------------------------------------------------------------------
(* Indexing *)

\* Documents read from the database and not yet written.
Held(i) == IF indexer[i].at \in {"graph", "doc"} THEN {indexer[i].object} \cup indexer[i].graph.parents ELSE {}
HeldFull == IF full.at = "idle" THEN {} ELSE Objects

\* The timer fires: objectIndexer takes the set, and the next event starts another.
TakeObjects(i) ==
    /\ indexer[i].at = "idle" /\ objectIndexSet /= {}
    /\ indexer' = [indexer EXCEPT ![i] = Between(objectIndexSet)]
    /\ objectIndexSet' = {}
    /\ UNCHANGED <<dbVars, events, cacheVars, lookup, overlapped, fullIndexUnderway, full, solr, failures, crossed>>

\* indexObject: the graph is computed ...
ComputeGraph(i, o) ==
    /\ indexer[i].at = "next" /\ o \in indexer[i].todo
    /\ indexer' = [indexer EXCEPT ![i] = [@ EXCEPT !.at = "graph", !.todo = indexer[i].todo \ {o},
                                                   !.object = o, !.graph = Graph(o)]]
    /\ UNCHANGED <<dbVars, events, cacheVars, lookup, overlapped, objectIndexSet, fullIndexUnderway, full, solr, failures, crossed>>

\* ... the document is made from the rows ...
HandleObject(i) ==
    /\ indexer[i].at = "graph"
    /\ indexer' = [indexer EXCEPT ![i] = [@ EXCEPT !.at = "doc",
                                                   !.doc = Document(indexer[i].object, indexer[i].graph)]]
    /\ UNCHANGED <<dbVars, events, cacheVars, lookup, overlapped, objectIndexSet, fullIndexUnderway, full, solr, failures, crossed>>

\* ... and added to the index, with what is below it added to its ancestors.
\* The document itself is an update too: what it had below stays.
AddDocuments(i) ==
    /\ indexer[i].at = "doc"
    /\ LET o == indexer[i].object
           g == indexer[i].graph
           others == HeldFull \cup UNION {Held(j) : j \in Indexers \ {i}}
       IN /\ solr' = [p \in Objects |->
                        IF p = o THEN [indexer[i].doc EXCEPT !.below = @ \cup solr[p].below]
                        ELSE IF p \in g.parents THEN [solr[p] EXCEPT !.below = @ \cup g.below]
                        ELSE solr[p]]
          /\ crossed' = crossed \cup (({o} \cup g.parents) \cap others)
    /\ indexer' = [indexer EXCEPT ![i] = Between(indexer[i].todo)]
    /\ UNCHANGED <<dbVars, events, cacheVars, lookup, overlapped, objectIndexSet, fullIndexUnderway, full, failures>>

\* A failure is logged; the next object follows.
AddFails(i) ==
    /\ indexer[i].at = "doc"
    /\ failures < MaxFailures
    /\ failures' = failures + 1
    /\ indexer' = [indexer EXCEPT ![i] = Between(indexer[i].todo)]
    /\ UNCHANGED <<dbVars, events, cacheVars, lookup, overlapped, objectIndexSet, fullIndexUnderway, full, solr, crossed>>

IndexObjects(i) ==
    \/ TakeObjects(i) \/ (\E o \in Objects : ComputeGraph(i, o)) \/ HandleObject(i)
    \/ AddDocuments(i) \/ AddFails(i)

-----------------------------------------------------------------------------
(* The full index *)

\* ObjectGraphDatabase.fetch
StartFullIndex ==
    /\ ~fullIndexUnderway
    /\ fullIndexUnderway' = TRUE
    /\ full' = [full EXCEPT !.at = "graph", !.graph = FullGraph]
    /\ UNCHANGED <<dbVars, events, cacheVars, lookup, overlapped, objectIndexSet, indexer, solr, failures, crossed>>

MakeDocuments ==
    /\ full.at = "graph"
    /\ full' = [at |-> "docs", graph |-> None, docs |-> [o \in Objects |-> Document(o, full.graph[o])]]
    /\ UNCHANGED <<dbVars, events, cacheVars, lookup, overlapped, objectIndexSet, indexer, fullIndexUnderway, solr, failures, crossed>>

\* Mutant: the flag is not reset.
AddAllDocumentsUnderway ==
    /\ full.at = "docs"
    /\ solr' = full.docs
    /\ crossed' = crossed \cup UNION {Held(i) : i \in Indexers}
    /\ full' = IdleFull
    /\ UNCHANGED <<dbVars, events, cacheVars, lookup, overlapped, objectIndexSet, indexer, fullIndexUnderway, failures>>

\* Documents replace what was there.
AddAllDocuments ==
    /\ full.at = "docs"
    /\ solr' = full.docs
    /\ crossed' = crossed \cup UNION {Held(i) : i \in Indexers}
    /\ full' = IdleFull /\ fullIndexUnderway' = FALSE
    /\ UNCHANGED <<dbVars, events, cacheVars, lookup, overlapped, objectIndexSet, indexer, failures>>

\* A failure ends the full index; the flag is reset in any case.
AddAllFails ==
    /\ full.at = "docs"
    /\ failures < MaxFailures
    /\ failures' = failures + 1
    /\ full' = IdleFull /\ fullIndexUnderway' = FALSE
    /\ UNCHANGED <<dbVars, events, cacheVars, lookup, overlapped, objectIndexSet, indexer, solr, crossed>>

FullIndex == StartFullIndex \/ MakeDocuments \/ AddAllDocuments \/ AddAllFails

Next ==
    \/ \E o \in Objects : RetireObject(o) \/ UpdateRetired(o) \/ \E n \in Names : Update(o, n)
    \/ \E l \in Links : CreateXref(l)
    \/ HandleEvent
    \/ \E l \in Lookups : StoreName(l) \/ \E o \in LookedUp : ReadName(l, o)
    \/ \E i \in Indexers : IndexObjects(i)
    \/ FullIndex

Spec == Init /\ [][Next]_vars

\* Promises continue, timers fire, and the full index is scheduled for ever.
\* Changes and lookups need not come.
Fairness ==
    /\ \A o \in Objects : WF_vars(UpdateRetired(o))
    /\ WF_vars(HandleEvent)
    /\ \A l \in Lookups : WF_vars(StoreName(l))
    /\ \A i \in Indexers : WF_vars(IndexObjects(i))
    /\ WF_vars(FullIndex)
FairSpec == Spec /\ Fairness

-----------------------------------------------------------------------------
(* Properties *)

GraphType == [parents : SUBSET Objects, retired : BOOLEAN, below : SUBSET Objects]
DocumentType == [name : Names, retired : BOOLEAN, above : SUBSET (Objects \X Names), below : SUBSET Objects]
EventType == [object : Objects, kind : {"object", "SystemObject", "SystemObjectXref"},
              at : {"sent", "read", "done"}, retired : BOOLEAN, after : BOOLEAN]
LookupType == [at : {"idle", "read"}, object : Objects \cup {None}, name : Names \cup {None}]
IndexerType == [at : {"idle", "next", "graph", "doc"}, todo : SUBSET Objects, object : Objects \cup {None},
                graph : GraphType, doc : DocumentType \cup {None}]

\* Every variable has its type, and the flag of the full index tells whether one is
\* under way.
TypeOK ==
    /\ row \in [Objects -> [name : Names, retired : BOOLEAN]]
    /\ xref \subseteq Links /\ retiring \subseteq Objects
    /\ Changes = 1..Cardinality(Changes) /\ Cardinality(Changes) <= MaxChanges
    /\ \A n \in Changes : events[n] \in EventType
    /\ names \in [Objects -> Names \cup {None}]
    /\ info \in [Objects -> BOOLEAN]
    /\ lookup \in [Lookups -> LookupType]
    /\ objectIndexSet \subseteq Objects
    /\ indexer \in [Indexers -> IndexerType]
    /\ fullIndexUnderway = (full.at /= "idle")
    /\ full.at \in {"idle", "graph", "docs"}
    /\ full.at = "graph" => full.graph \in [Objects -> GraphType]
    /\ full.at = "docs" => full.docs \in [Objects -> DocumentType]
    /\ solr \in [Objects -> DocumentType]
    /\ failures \in 0..MaxFailures
    /\ overlapped \subseteq Objects /\ crossed \subseteq Objects

EventsHandled == \A n \in Changes : events[n].at = "done"

\* Once all events have been handled, the cache has the current name of an object
\* or none, unless the object changed while a lookup or a flush had read it but not
\* stored the answer: flushObject comes after the write and deletes what was there.
NamesCurrent ==
    EventsHandled => \A o \in Objects \ overlapped : names[o] \in {row[o].name, None}

\* An update of an object that is retired, as it follows in updateObjectDetails and
\* discardAssetVersion, makes the cache see that it is retired (unless it was
\* retired while the cache had read it but not stored the answer).
RetiredSeenByUpdate ==
    EventsHandled => \A n \in Changes :
        (/\ events[n].kind = "object" /\ events[n].after
         /\ events[n].object \notin overlapped) => info[events[n].object]

\* When events have been handled and all indexing is done, the document of an
\* object has its name and parents, and its parents know what they have below,
\* unless two indexings of it were under way at once or a request failed.
IndexCurrent ==
    (/\ EventsHandled /\ objectIndexSet = {} /\ failures = 0
     /\ \A i \in Indexers : indexer[i].at = "idle") =>
        \A o \in Objects : o \notin crossed /\ full.at = "idle" =>
            /\ solr[o].name = row[o].name
            /\ {a[1] : a \in solr[o].above} = Parents(o, xref)
            /\ Children(o, xref) \subseteq solr[o].below

\* Once changes end, the index will have current names, of an object and of its
\* parents, for ever: whatever overtook or failed is made good by a full index
\* (FairSpec).
IndexBecomesCurrent ==
    <>[](\A o \in Objects :
            /\ solr[o].name = row[o].name
            /\ solr[o].above = {<<p, row[p].name>> : p \in Parents(o, xref)}
            /\ Children(o, xref) \subseteq solr[o].below)

\* "inform cache and solr of systemobject events" (EventConsumerDB.ts:19): that an
\* object is retired reaches the index, sooner or later (FairSpec).
RetiredBecomesKnown == <>[](\A o \in Objects : solr[o].retired = row[o].retired)

=============================================================================
