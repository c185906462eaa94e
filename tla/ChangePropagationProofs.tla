---------------------- MODULE ChangePropagationProofs ----------------------
(***************************************************************************)
(* TypeCorrect, NamesCurrentAlways, RetiredSeenAlways, IndexCurrentAlways: *)
(* for any objects, links, lookups, indexers and any number of changes and *)
(* failures, the variables keep their types, and what EventConsumerDB      *)
(* leaves in the SystemObjectCache and in the index is current.            *)
(*                                                                         *)
(* The argument for the cache (CacheInv): what a lookup or a flush has     *)
(* read of an object is current, or the object has changed meanwhile and   *)
(* is among the overlapped; and a name in the cache is current as long as  *)
(* no event that will flush it is waiting.                                 *)
(*                                                                         *)
(* The argument for the index (IndexInv): an object is due for indexing,   *)
(* or an indexer with current data has it, or its document is current and  *)
(* so is everything that may replace it.  An indexer with old data that    *)
(* writes while another has current data makes the object crossed.  The    *)
(* same holds of what a parent has below, where only a full index takes    *)
(* anything away.                                                          *)
(***************************************************************************)
EXTENDS ChangePropagation, FiniteSetTheorems, TLAPS

Kinds == {"object", "SystemObject", "SystemObjectXref"}
RowType == [name : Names, retired : BOOLEAN]

-----------------------------------------------------------------------------
(* The type invariant, by the parts that a step can disturb.               *)

DbTyped ==
    /\ row \in [Objects -> RowType]
    /\ xref \subseteq Links
    /\ retiring \subseteq Objects

EventsTyped ==
    \E count \in 0 .. MaxChanges :
        events \in [1 .. count -> EventType]

(* A lookup that has read has an object and a name.                        *)
CacheTyped ==
    /\ names \in [Objects -> Names \cup {None}]
    /\ info \in [Objects -> BOOLEAN]
    /\ lookup \in [Lookups -> LookupType]
    /\ \A l \in Lookups : lookup[l].at = "read" => lookup[l].object \in Objects
                                                   /\ lookup[l].name \in Names
    /\ overlapped \subseteq Objects

(* An indexer that has a graph has an object, and so forth.                *)
IndexerTyped(x) ==
    /\ x \in IndexerType
    /\ x.at \in {"graph", "doc"} => x.object \in Objects
    /\ x.at = "doc" => x.doc \in DocumentType

FullType == [at : {"idle", "graph", "docs"},
             graph : [Objects -> GraphType] \cup {None},
             docs : [Objects -> DocumentType] \cup {None}]

FullTyped ==
    /\ full \in FullType
    /\ full.at = "graph" => full.graph \in [Objects -> GraphType]
    /\ full.at = "docs" => full.docs \in [Objects -> DocumentType]
    /\ fullIndexUnderway = (full.at /= "idle")

SolrTyped ==
    /\ solr \in [Objects -> DocumentType]
    /\ failures \in 0 .. MaxFailures
    /\ crossed \subseteq Objects

IndexTyped ==
    /\ objectIndexSet \subseteq Objects
    /\ indexer \in [Indexers -> IndexerType]
    /\ \A i \in Indexers : IndexerTyped(indexer[i])
    /\ FullTyped
    /\ SolrTyped

TypeInv == DbTyped /\ EventsTyped /\ CacheTyped /\ IndexTyped

LEMMA TypeInvImplies == TypeInv => TypeOK
  <1> SUFFICES ASSUME TypeInv PROVE TypeOK
    OBVIOUS
  <1>1. PICK count \in 0 .. MaxChanges : events \in [1 .. count -> EventType]
    BY DEF TypeInv, EventsTyped
  <1>2. Changes = 1 .. count /\ Cardinality(1 .. count) = count
    BY <1>1, ConstantsAssumption, FS_Interval DEF Changes
  <1>3. /\ Changes = 1 .. Cardinality(Changes) /\ Cardinality(Changes) <= MaxChanges
        /\ \A n \in Changes : events[n] \in EventType
    BY <1>1, <1>2, ConstantsAssumption
  <1>4. /\ fullIndexUnderway = (full.at /= "idle")
        /\ full.at \in {"idle", "graph", "docs"}
        /\ full.at = "graph" => full.graph \in [Objects -> GraphType]
        /\ full.at = "docs" => full.docs \in [Objects -> DocumentType]
    BY DEF TypeInv, IndexTyped, FullTyped, FullType
  <1> QED
    BY <1>3, <1>4
    DEF TypeInv, DbTyped, CacheTyped, IndexTyped, SolrTyped, TypeOK, RowType

-----------------------------------------------------------------------------
(* Graphs and documents.                                                   *)

LEMMA GraphTyped ==
    ASSUME DbTyped, CacheTyped, NEW o \in Objects
    PROVE  Graph(o) \in GraphType
  BY DEF CacheTyped, Graph, GraphType, Parents, Children

LEMMA FullGraphTyped ==
    ASSUME DbTyped, CacheTyped
    PROVE  FullGraph \in [Objects -> GraphType]
  BY DEF CacheTyped, FullGraph, GraphType, Parents, Children

LEMMA DocumentTyped ==
    ASSUME DbTyped, NEW o \in Objects, NEW g \in GraphType
    PROVE  Document(o, g) \in DocumentType
  <1>1. \A p \in Objects : row[p].name \in Names
    BY DEF DbTyped, RowType
  <1>2. /\ g.parents \subseteq Objects /\ g.retired \in BOOLEAN /\ g.below \subseteq Objects
    BY DEF GraphType
  <1>3. {<<p, row[p].name>> : p \in g.parents} \subseteq Objects \X Names
    BY <1>1, <1>2
  <1> QED
    BY <1>1, <1>2, <1>3 DEF Document, DocumentType

LEMMA BetweenTyped ==
    ASSUME NEW todo \in SUBSET Objects
    PROVE  IndexerTyped(Between(todo)) /\ Between(todo) \in IndexerType
  <1>1. NoGraph \in GraphType
    BY DEF NoGraph, GraphType
  <1> QED
    BY <1>1 DEF IndexerTyped, Between, IndexerType

-----------------------------------------------------------------------------
(* The two ways the list of events changes.                                *)

LEMMA SendStep ==
    ASSUME DbTyped, EventsTyped, NEW o \in Objects, NEW kind \in Kinds,
           MayChange, Send(o, kind)
    PROVE  /\ EventsTyped'
           /\ \E m : /\ Changes' = Changes \cup {m} /\ m \notin Changes
                     /\ events'[m] = Event(o, kind)
                     /\ \A n \in Changes : events'[n] = events[n]
  <1>1. PICK count \in 0 .. MaxChanges : events \in [1 .. count -> EventType]
    BY DEF EventsTyped
  <1>2. Changes = 1 .. count /\ Cardinality(Changes) = count /\ count \in Nat
    BY <1>1, ConstantsAssumption, FS_Interval DEF Changes
  <1>3. count + 1 \in 0 .. MaxChanges
    BY <1>2, ConstantsAssumption DEF MayChange
  <1>4. Event(o, kind) \in EventType
    BY DEF DbTyped, RowType, Event, EventType, Kinds
  <1>5. events' = [n \in 1 .. (count + 1) |-> IF n \in 1 .. count THEN events[n] ELSE Event(o, kind)]
    BY <1>2 DEF Send
  <1>6. events' \in [1 .. (count + 1) -> EventType]
    BY <1>1, <1>4, <1>5
  <1>7. EventsTyped'
    BY <1>3, <1>6 DEF EventsTyped
  <1>8. /\ Changes' = 1 .. (count + 1)
        /\ events'[count + 1] = Event(o, kind)
        /\ \A n \in 1 .. count : events'[n] = events[n]
    BY <1>2, <1>5 DEF Changes
  <1>9. 1 .. (count + 1) = (1 .. count) \cup {count + 1} /\ count + 1 \notin 1 .. count
    BY <1>2
  <1> QED
    BY <1>2, <1>7, <1>8, <1>9

LEMMA MarkStep ==
    ASSUME EventsTyped, NEW n \in Changes, NEW e \in EventType,
           events' = [events EXCEPT ![n] = e]
    PROVE  /\ EventsTyped'
           /\ Changes' = Changes /\ events'[n] = e
           /\ \A m \in Changes \ {n} : events'[m] = events[m]
  <1>1. PICK count \in 0 .. MaxChanges : events \in [1 .. count -> EventType]
    BY DEF EventsTyped
  <1>2. events' \in [1 .. count -> EventType]
    BY <1>1 DEF Changes
  <1> QED
    BY <1>1, <1>2 DEF EventsTyped, Changes

LEMMA EventDone ==
    ASSUME NEW e \in EventType
    PROVE  LET done == [e EXCEPT !.at = "done"]
           IN  /\ done \in EventType
               /\ done.at = "done" /\ done.object = e.object /\ done.kind = e.kind
               /\ done.after = e.after /\ done.retired = e.retired
  BY DEF EventType

LEMMA EventRead ==
    ASSUME NEW e \in EventType, NEW retired \in BOOLEAN
    PROVE  LET read == [e EXCEPT !.at = "read", !.retired = retired]
           IN  /\ read \in EventType
               /\ read.at = "read" /\ read.object = e.object /\ read.kind = e.kind
               /\ read.after = e.after /\ read.retired = retired
  BY DEF EventType

LEMMA EventTyped ==
    ASSUME EventsTyped, NEW n \in Changes
    PROVE  events[n] \in EventType
  BY DEF EventsTyped, Changes

-----------------------------------------------------------------------------
(* What a step leaves alone keeps its type.                                *)

LEMMA DbUnchanged == ASSUME DbTyped, UNCHANGED dbVars PROVE DbTyped'
  BY DEF DbTyped, dbVars

LEMMA EventsUnchanged == ASSUME EventsTyped, UNCHANGED events PROVE EventsTyped'
  BY DEF EventsTyped

LEMMA CacheUnchanged ==
    ASSUME CacheTyped, UNCHANGED <<cacheVars, lookup>>, overlapped' \subseteq Objects
    PROVE  CacheTyped'
  BY DEF CacheTyped, cacheVars

LEMMA FullUnchanged ==
    ASSUME FullTyped, UNCHANGED <<full, fullIndexUnderway>>
    PROVE  FullTyped'
  BY DEF FullTyped

LEMMA SolrUnchanged ==
    ASSUME SolrTyped, UNCHANGED <<solr, failures, crossed>>
    PROVE  SolrTyped'
  BY DEF SolrTyped

LEMMA IndexUnchanged == ASSUME IndexTyped, UNCHANGED indexVars PROVE IndexTyped'
  <1>1. FullTyped'
    BY FullUnchanged DEF IndexTyped, indexVars
  <1>2. SolrTyped'
    BY SolrUnchanged DEF IndexTyped, indexVars
  <1> QED
    BY <1>1, <1>2 DEF IndexTyped, indexVars, IndexerTyped

LEMMA TouchTyped ==
    ASSUME overlapped \subseteq Objects, NEW o \in Objects, Touch(o)
    PROVE  overlapped' \subseteq Objects
  BY DEF Touch

LEMMA ScheduleTyped ==
    ASSUME IndexTyped, NEW o \in Objects, Schedule(o),
           UNCHANGED <<indexer, fullIndexUnderway, full, solr, failures, crossed>>
    PROVE  IndexTyped'
  <1>1. FullTyped'
    BY FullUnchanged DEF IndexTyped
  <1>2. SolrTyped'
    BY SolrUnchanged DEF IndexTyped
  <1>3. objectIndexSet' \subseteq Objects
    BY DEF IndexTyped, Schedule
  <1> QED
    BY <1>1, <1>2, <1>3 DEF IndexTyped, IndexerTyped

-----------------------------------------------------------------------------
(* Each action keeps the types.                                            *)

LEMMA ChangeType ==
    ASSUME TypeInv, NEW o \in Objects,
           RetireObject(o) \/ UpdateRetired(o) \/ \E n \in Names : Update(o, n)
    PROVE  TypeInv'
  <1> USE DEF TypeInv
  <1>0. overlapped \subseteq Objects
    BY DEF CacheTyped
  <1>1. CASE RetireObject(o)
    <2>1. DbTyped'
      BY <1>1 DEF DbTyped, RetireObject
    <2>2. EventsTyped'
      BY <1>1, SendStep DEF RetireObject, Kinds
    <2>3. CacheTyped'
      BY <1>0, <1>1, CacheUnchanged DEF RetireObject
    <2> QED
      BY <1>1, <2>1, <2>2, <2>3, IndexUnchanged DEF RetireObject
  <1>2. CASE UpdateRetired(o)
    <2>1. [row[o] EXCEPT !.retired = TRUE] \in RowType
      BY DEF DbTyped, RowType
    <2>2. DbTyped'
      BY <1>2, <2>1 DEF DbTyped, UpdateRetired
    <2>3. CacheTyped'
      BY <1>0, <1>2, TouchTyped, CacheUnchanged DEF UpdateRetired
    <2> QED
      BY <1>2, <2>2, <2>3, EventsUnchanged, IndexUnchanged DEF UpdateRetired
  <1>3. ASSUME NEW n \in Names, Update(o, n) PROVE TypeInv'
    <2>1. [row[o] EXCEPT !.name = n] \in RowType
      BY DEF DbTyped, RowType
    <2>2. DbTyped'
      BY <1>3, <2>1 DEF DbTyped, Update
    <2>3. EventsTyped'
      BY <1>3, SendStep DEF Update, Kinds
    <2>4. CacheTyped'
      BY <1>0, <1>3, TouchTyped, CacheUnchanged DEF Update
    <2> QED
      BY <1>3, <2>2, <2>3, <2>4, IndexUnchanged DEF Update
  <1> QED
    BY <1>1, <1>2, <1>3

LEMMA CreateXrefType ==
    ASSUME TypeInv, NEW l \in Links, CreateXref(l)
    PROVE  TypeInv'
  <1> USE DEF TypeInv
  <1>1. l[2] \in Objects
    BY ConstantsAssumption
  <1>2. DbTyped'
    BY DEF DbTyped, CreateXref
  <1>3. EventsTyped'
    BY <1>1, SendStep DEF CreateXref, Kinds
  <1>4. CacheTyped'
    BY CacheUnchanged DEF CreateXref, CacheTyped
  <1> QED
    BY <1>2, <1>3, <1>4, IndexUnchanged DEF CreateXref

LEMMA HandleEventType ==
    ASSUME TypeInv, NEW n \in Changes,
           IgnoreEvent(n) \/ HandleXref(n) \/ ReadSystemObject(n) \/ FlushObject(n)
    PROVE  TypeInv'
  <1> USE DEF TypeInv
  <1>1. PICK e \in EventType : e = events[n]
    BY EventTyped
  <1>2. e.object \in Objects /\ e.retired \in BOOLEAN
    BY DEF EventType
  <1>3. [events[n] EXCEPT !.at = "done"] \in EventType
    BY <1>1 DEF EventType
  <1>4. overlapped \subseteq Objects
    BY DEF CacheTyped
  <1>5. CASE IgnoreEvent(n)
    <2>1. EventsTyped'
      BY <1>3, <1>5, MarkStep DEF IgnoreEvent
    <2> QED
      BY <1>4, <1>5, <2>1, DbUnchanged, CacheUnchanged, IndexUnchanged DEF IgnoreEvent
  <1>6. CASE HandleXref(n)
    <2>1. EventsTyped'
      BY <1>3, <1>6, MarkStep DEF HandleXref
    <2>2. IndexTyped'
      BY <1>1, <1>2, <1>6, ScheduleTyped DEF HandleXref
    <2> QED
      BY <1>4, <1>6, <2>1, <2>2, DbUnchanged, CacheUnchanged DEF HandleXref
  <1>7. CASE ReadSystemObject(n)
    <2>1. row[e.object].retired \in BOOLEAN
      BY <1>2 DEF DbTyped, RowType
    <2>2. [events[n] EXCEPT !.at = "read", !.retired = row[e.object].retired] \in EventType
      BY <1>1, <2>1 DEF EventType
    <2>3. EventsTyped'
      BY <1>1, <1>7, <2>2, MarkStep DEF ReadSystemObject
    <2> QED
      BY <1>4, <1>7, <2>3, DbUnchanged, CacheUnchanged, IndexUnchanged DEF ReadSystemObject
  <1>8. CASE FlushObject(n)
    <2>1. EventsTyped'
      BY <1>3, <1>8, MarkStep DEF FlushObject
    <2>2. IndexTyped'
      BY <1>1, <1>2, <1>8, ScheduleTyped DEF FlushObject
    <2>3. /\ names' = [names EXCEPT ![e.object] = None]
          /\ info' = [info EXCEPT ![e.object] = e.retired]
          /\ UNCHANGED <<lookup, overlapped>>
      BY <1>1, <1>8 DEF FlushObject
    <2>4. CacheTyped'
      BY <1>2, <2>3 DEF CacheTyped
    <2> QED
      BY <1>8, <2>1, <2>2, <2>4, DbUnchanged DEF FlushObject
  <1> QED
    BY <1>5, <1>6, <1>7, <1>8

LEMMA ReadNameType ==
    ASSUME TypeInv, NEW l \in Lookups, NEW o \in LookedUp, ReadName(l, o)
    PROVE  TypeInv'
  <1> USE DEF TypeInv
  <1>1. o \in Objects /\ row[o].name \in Names
    BY ConstantsAssumption DEF DbTyped, RowType
  <1>2. PICK new \in LookupType :
            /\ new.object \in Objects /\ new.name \in Names
            /\ lookup' = [lookup EXCEPT ![l] = new]
    BY <1>1 DEF ReadName, LookupType
  <1>3. CacheTyped'
    BY <1>2 DEF CacheTyped, ReadName, cacheVars
  <1> QED
    BY <1>3, DbUnchanged, EventsUnchanged, IndexUnchanged DEF ReadName

LEMMA StoreNameType ==
    ASSUME TypeInv, NEW l \in Lookups, StoreName(l)
    PROVE  TypeInv'
  <1> USE DEF TypeInv
  <1>1. lookup[l].object \in Objects /\ lookup[l].name \in Names
    BY DEF StoreName, CacheTyped
  <1>2. IdleLookup \in LookupType /\ IdleLookup.at = "idle"
    BY DEF IdleLookup, LookupType
  <1>3. CacheTyped'
    BY <1>1, <1>2 DEF CacheTyped, StoreName
  <1> QED
    BY <1>3, DbUnchanged, EventsUnchanged, IndexUnchanged DEF StoreName

(* The steps of an indexer disturb nothing but the index.                  *)
LEMMA IndexObjectsType ==
    ASSUME TypeInv, NEW i \in Indexers, IndexObjects(i)
    PROVE  IndexTyped'
  <1> USE DEF TypeInv
  <1>0. IndexerTyped(indexer[i]) /\ indexer[i] \in IndexerType
    BY DEF IndexTyped
  <1>1. ASSUME objectIndexSet' \subseteq Objects,
               NEW new \in IndexerType, IndexerTyped(new),
               indexer' = [indexer EXCEPT ![i] = new], FullTyped', SolrTyped'
        PROVE  IndexTyped'
    <2>1. \A j \in Indexers : IndexerTyped(indexer'[j])
      BY <1>1 DEF IndexTyped
    <2> QED
      BY <1>1, <2>1 DEF IndexTyped, IndexerTyped
  <1>2. CASE TakeObjects(i)
    <2>1. IndexerTyped(Between(objectIndexSet)) /\ Between(objectIndexSet) \in IndexerType
      BY BetweenTyped DEF IndexTyped
    <2>2. FullTyped' /\ SolrTyped'
      BY <1>2, FullUnchanged, SolrUnchanged DEF IndexTyped, TakeObjects
    <2> QED
      BY <1>1, <1>2, <2>1, <2>2 DEF TakeObjects
  <1>3. ASSUME NEW o \in Objects, ComputeGraph(i, o) PROVE IndexTyped'
    <2>1. Graph(o) \in GraphType
      BY GraphTyped
    <2>2. PICK new : new = [indexer[i] EXCEPT !.at = "graph", !.todo = indexer[i].todo \ {o},
                                               !.object = o, !.graph = Graph(o)]
      OBVIOUS
    <2>3. new \in IndexerType /\ IndexerTyped(new)
      BY <1>0, <2>1, <2>2 DEF IndexerType, IndexerTyped
    <2>4. FullTyped' /\ SolrTyped' /\ objectIndexSet' \subseteq Objects
      BY <1>3, FullUnchanged, SolrUnchanged DEF IndexTyped, ComputeGraph
    <2>5. indexer' = [indexer EXCEPT ![i] = new]
      BY <1>3, <2>2, Zenon DEF ComputeGraph
    <2> QED
      BY <1>1, <2>3, <2>4, <2>5
  <1>4. CASE HandleObject(i)
    <2>1. indexer[i].object \in Objects /\ indexer[i].graph \in GraphType
      BY <1>0, <1>4 DEF HandleObject, IndexerTyped, IndexerType
    <2>2. PICK doc \in DocumentType : doc = Document(indexer[i].object, indexer[i].graph)
      BY <2>1, DocumentTyped
    <2>3. PICK new : new = [indexer[i] EXCEPT !.at = "doc", !.doc = doc]
      OBVIOUS
    <2>4. new \in IndexerType /\ IndexerTyped(new)
      BY <1>0, <2>1, <2>3 DEF IndexerType, IndexerTyped
    <2>5. FullTyped' /\ SolrTyped' /\ objectIndexSet' \subseteq Objects
      BY <1>4, FullUnchanged, SolrUnchanged DEF IndexTyped, HandleObject
    <2>6. indexer' = [indexer EXCEPT ![i] = new]
      BY <1>4, <2>2, <2>3, Zenon DEF HandleObject
    <2> QED
      BY <1>1, <2>4, <2>5, <2>6
  <1>5. CASE AddDocuments(i)
    <2>1. indexer[i].object \in Objects /\ indexer[i].graph \in GraphType
          /\ indexer[i].doc \in DocumentType /\ indexer[i].todo \subseteq Objects
      BY <1>0, <1>5 DEF AddDocuments, IndexerTyped, IndexerType
    <2>2. IndexerTyped(Between(indexer[i].todo)) /\ Between(indexer[i].todo) \in IndexerType
      BY <2>1, BetweenTyped
    <2>3. indexer[i].graph.parents \subseteq Objects /\ indexer[i].graph.below \subseteq Objects
      BY <2>1 DEF GraphType
    <2>4. ASSUME NEW d \in DocumentType, NEW more \in SUBSET Objects
          PROVE  [d EXCEPT !.below = d.below \cup more] \in DocumentType
      BY DEF DocumentType
    <2>5. solr' \in [Objects -> DocumentType]
      <3>1. \A p \in Objects : solr[p] \in DocumentType /\ solr[p].below \subseteq Objects
        BY DEF IndexTyped, SolrTyped, DocumentType
      <3>2. indexer[i].doc.below \subseteq Objects
        BY <2>1 DEF DocumentType
      <3>3. \A p \in Objects :
                /\ [indexer[i].doc EXCEPT !.below = indexer[i].doc.below \cup solr[p].below] \in DocumentType
                /\ [solr[p] EXCEPT !.below = solr[p].below \cup indexer[i].graph.below] \in DocumentType
        BY <2>1, <2>3, <2>4, <3>1
      <3> QED
        BY <1>5, <3>1, <3>3 DEF AddDocuments
    <2>6. crossed' \subseteq Objects
      BY <1>5, <2>1, <2>3 DEF AddDocuments, IndexTyped, SolrTyped
    <2>7. SolrTyped' /\ FullTyped' /\ objectIndexSet' \subseteq Objects
      BY <1>5, <2>5, <2>6, FullUnchanged DEF AddDocuments, IndexTyped, SolrTyped
    <2> QED
      BY <1>1, <1>5, <2>2, <2>7 DEF AddDocuments
  <1>6. CASE AddFails(i)
    <2>1. IndexerTyped(Between(indexer[i].todo)) /\ Between(indexer[i].todo) \in IndexerType
      BY <1>0, BetweenTyped DEF IndexerType
    <2>2. SolrTyped' /\ FullTyped' /\ objectIndexSet' \subseteq Objects
      BY <1>6, FullUnchanged, ConstantsAssumption DEF AddFails, IndexTyped, SolrTyped
    <2> QED
      BY <1>1, <1>6, <2>1, <2>2 DEF AddFails
  <1> QED
    BY <1>2, <1>3, <1>4, <1>5, <1>6 DEF IndexObjects

(* Nor do those of a full index.                                           *)
LEMMA FullIndexType ==
    ASSUME TypeInv, FullIndex
    PROVE  IndexTyped'
  <1> USE DEF TypeInv
  <1>0. FullTyped /\ SolrTyped /\ full \in FullType
    BY DEF IndexTyped, FullTyped
  <1>1. ASSUME UNCHANGED <<objectIndexSet, indexer>>, FullTyped', SolrTyped'
        PROVE  IndexTyped'
    BY <1>1 DEF IndexTyped, IndexerTyped
  <1>2. IdleFull \in FullType /\ IdleFull.at = "idle"
    BY DEF IdleFull, FullType
  <1>3. CASE StartFullIndex
    <2>1. PICK graph \in [Objects -> GraphType] : graph = FullGraph
      BY FullGraphTyped
    <2>2. full' = [full EXCEPT !.at = "graph", !.graph = graph] /\ fullIndexUnderway' = TRUE
      BY <1>3, <2>1 DEF StartFullIndex
    <2>3. full' \in FullType /\ full'.at = "graph" /\ full'.graph = graph
      BY <1>0, <2>2 DEF FullType
    <2>4. FullTyped'
      BY <2>2, <2>3 DEF FullTyped
    <2> QED
      BY <1>0, <1>1, <1>3, <2>4, SolrUnchanged DEF StartFullIndex
  <1>4. CASE MakeDocuments
    <2>1. PICK graph \in [Objects -> GraphType] : graph = full.graph
      BY <1>0, <1>4 DEF MakeDocuments, FullTyped
    <2>2. [o \in Objects |-> Document(o, full.graph[o])] \in [Objects -> DocumentType]
      BY <2>1, DocumentTyped
    <2>3. PICK docs \in [Objects -> DocumentType] : docs = [o \in Objects |-> Document(o, full.graph[o])]
      BY <2>2
    <2>4. full' = [at |-> "docs", graph |-> None, docs |-> docs]
      BY <1>4, <2>3 DEF MakeDocuments
    <2>5. fullIndexUnderway' = fullIndexUnderway /\ fullIndexUnderway = TRUE
      BY <1>0, <1>4 DEF MakeDocuments, FullTyped
    <2>6. FullTyped'
      BY <2>4, <2>5 DEF FullTyped, FullType
    <2> QED
      BY <1>0, <1>1, <1>4, <2>6, SolrUnchanged DEF MakeDocuments
  <1>5. CASE AddAllDocuments
    <2>1. FullTyped'
      BY <1>2, <1>5 DEF AddAllDocuments, FullTyped
    <2>2. solr' \in [Objects -> DocumentType]
      BY <1>0, <1>5 DEF AddAllDocuments, FullTyped
    <2>3. \A i \in Indexers : Held(i) \subseteq Objects
      BY DEF IndexTyped, IndexerTyped, IndexerType, GraphType, Held
    <2>4. SolrTyped'
      BY <1>0, <1>5, <2>2, <2>3 DEF AddAllDocuments, SolrTyped
    <2> QED
      BY <1>1, <1>5, <2>1, <2>4 DEF AddAllDocuments
  <1>6. CASE AddAllFails
    <2>1. FullTyped'
      BY <1>2, <1>6 DEF AddAllFails, FullTyped
    <2>2. SolrTyped'
      BY <1>0, <1>6, ConstantsAssumption DEF AddAllFails, SolrTyped
    <2> QED
      BY <1>1, <1>6, <2>1, <2>2 DEF AddAllFails
  <1> QED
    BY <1>3, <1>4, <1>5, <1>6 DEF FullIndex

LEMMA InitType == Init => TypeInv
  <1> SUFFICES ASSUME Init PROVE TypeInv
    OBVIOUS
  <1> USE ConstantsAssumption
  <1>1. DbTyped
    BY DEF Init, DbTyped, RowType
  <1>2. events \in [1 .. 0 -> EventType]
    BY DEF Init
  <1>3. EventsTyped
    BY <1>2 DEF EventsTyped
  <1>4. \A o \in Objects : row[o].retired \in BOOLEAN
    BY DEF Init
  <1>5. IdleLookup \in LookupType /\ IdleLookup.at = "idle"
    BY DEF IdleLookup, LookupType
  <1>6. CacheTyped
    BY <1>4, <1>5 DEF Init, CacheTyped
  <1>7. Idle \in IndexerType /\ IndexerTyped(Idle)
    BY BetweenTyped DEF Idle
  <1>8. FullTyped
    BY DEF Init, IdleFull, FullTyped, FullType
  <1>9. \A o \in Objects : Document(o, FullGraph[o]) \in DocumentType
    BY <1>1, <1>6, FullGraphTyped, DocumentTyped
  <1>10. SolrTyped
    BY <1>9 DEF Init, SolrTyped
  <1>11. IndexTyped
    BY <1>7, <1>8, <1>10 DEF Init, IndexTyped
  <1> QED
    BY <1>1, <1>3, <1>6, <1>11 DEF TypeInv

LEMMA IndexingLeavesCache ==
    ASSUME (\E i \in Indexers : IndexObjects(i)) \/ FullIndex
    PROVE  UNCHANGED <<dbVars, events, cacheVars, lookup, overlapped>>
  <1>1. ASSUME NEW i \in Indexers, IndexObjects(i)
        PROVE  UNCHANGED <<dbVars, events, cacheVars, lookup, overlapped>>
    BY <1>1 DEF IndexObjects, TakeObjects, ComputeGraph, HandleObject, AddDocuments, AddFails
  <1>2. CASE FullIndex
    BY <1>2 DEF FullIndex, StartFullIndex, MakeDocuments, AddAllDocuments, AddAllFails
  <1> QED
    BY <1>1, <1>2

LEMMA NextType == TypeInv /\ [Next]_vars => TypeInv'
  <1> SUFFICES ASSUME TypeInv, [Next]_vars PROVE TypeInv'
    OBVIOUS
  <1>0. DbTyped /\ EventsTyped /\ CacheTyped /\ IndexTyped /\ overlapped \subseteq Objects
    BY DEF TypeInv, CacheTyped
  <1>1. ASSUME NEW o \in Objects,
               RetireObject(o) \/ UpdateRetired(o) \/ \E n \in Names : Update(o, n)
        PROVE  TypeInv'
    BY <1>1, ChangeType
  <1>2. ASSUME NEW l \in Links, CreateXref(l) PROVE TypeInv'
    BY <1>2, CreateXrefType
  <1>3. CASE HandleEvent
    BY <1>3, HandleEventType DEF HandleEvent
  <1>4. ASSUME NEW l \in Lookups, StoreName(l) \/ \E o \in LookedUp : ReadName(l, o)
        PROVE  TypeInv'
    BY <1>4, StoreNameType, ReadNameType
  <1>5. ASSUME (\E i \in Indexers : IndexObjects(i)) \/ FullIndex PROVE TypeInv'
    <2>1. IndexTyped'
      BY <1>5, IndexObjectsType, FullIndexType
    <2> QED
      BY <1>0, <1>5, <2>1, IndexingLeavesCache, DbUnchanged, EventsUnchanged, CacheUnchanged
      DEF TypeInv
  <1>6. CASE UNCHANGED vars
    BY <1>0, <1>6, DbUnchanged, EventsUnchanged, CacheUnchanged, IndexUnchanged DEF TypeInv, vars
  <1> QED
    BY <1>1, <1>2, <1>3, <1>4, <1>5, <1>6 DEF Next

(* Every variable of ChangePropagation keeps its type, and                 *)
(* fullIndexUnderway tells whether a full index is under way.              *)
THEOREM TypeCorrect == Spec => []TypeOK
  <1>1. Spec => []TypeInv
    BY InitType, NextType, PTL DEF Spec
  <1> QED
    BY <1>1, TypeInvImplies, PTL

-----------------------------------------------------------------------------
(* The cache.                                                              *)

(* What lookups have read is current.                                      *)
LookupsCurrent ==
    \A l \in Lookups :
        lookup[l].at = "read" /\ lookup[l].object \notin overlapped
            => lookup[l].name = row[lookup[l].object].name

(* An event that will flush the object has not been handled.               *)
Flushing(o) ==
    \E n \in Changes : /\ events[n].kind = "object" /\ events[n].object = o
                       /\ events[n].at /= "done"

NamesKept ==
    \A o \in Objects \ overlapped : names[o] \in {row[o].name, None} \/ Flushing(o)

(* What an event has read is current; it comes after the retirement it     *)
(* was told of; and once handled, it has told the cache.                   *)
EventKept(e) ==
    /\ e.at = "read" /\ e.object \notin overlapped => e.retired = row[e.object].retired
    /\ e.after => row[e.object].retired
    /\ (e.kind = "object" /\ e.at = "done" /\ e.after /\ e.object \notin overlapped)
            => info[e.object]

EventsKept == \A n \in Changes : EventKept(events[n])

CacheInv == LookupsCurrent /\ NamesKept /\ EventsKept

LEMMA InitCache == Init => CacheInv
  <1> SUFFICES ASSUME Init PROVE CacheInv
    OBVIOUS
  <1>1. LookupsCurrent
    BY DEF Init, LookupsCurrent, IdleLookup
  <1>2. NamesKept
    BY DEF Init, NamesKept
  <1>3. EventsKept
    BY DEF Init, EventsKept, Changes
  <1> QED
    BY <1>1, <1>2, <1>3 DEF CacheInv

LEMMA CacheLeftAlone ==
    ASSUME CacheInv, UNCHANGED <<dbVars, events, cacheVars, lookup, overlapped>>
    PROVE  CacheInv'
  BY DEF CacheInv, LookupsCurrent, NamesKept, Flushing, EventsKept, EventKept, Changes,
         dbVars, cacheVars

(* An event of another kind is sent: the cache is not concerned.           *)
LEMMA OtherEventCache ==
    ASSUME TypeInv, CacheInv, NEW o \in Objects, NEW kind \in Kinds \ {"object"},
           MayChange, Send(o, kind), UNCHANGED <<row, cacheVars, lookup, overlapped>>
    PROVE  CacheInv'
  <1>1. PICK m : /\ Changes' = Changes \cup {m} /\ m \notin Changes
                 /\ events'[m] = Event(o, kind)
                 /\ \A n \in Changes : events'[n] = events[n]
    BY SendStep DEF TypeInv
  <1>2. LookupsCurrent'
    BY DEF CacheInv, LookupsCurrent
  <1>3. \A p \in Objects : Flushing(p) => Flushing(p)'
    BY <1>1 DEF Flushing
  <1>4. NamesKept'
    BY <1>3 DEF CacheInv, NamesKept, cacheVars
  <1>5. \A n \in Changes : EventKept(events[n])'
    BY <1>1 DEF CacheInv, EventsKept, EventKept, cacheVars
  <1>6. EventKept(events[m])'
    BY <1>1 DEF EventKept, Event, Kinds
  <1>7. EventsKept'
    BY <1>1, <1>5, <1>6 DEF EventsKept
  <1> QED
    BY <1>2, <1>4, <1>7 DEF CacheInv

LEMMA UpdateCache ==
    ASSUME TypeInv, CacheInv, NEW o \in Objects, NEW name \in Names, Update(o, name)
    PROVE  CacheInv'
  <1>1. PICK m : /\ Changes' = Changes \cup {m} /\ m \notin Changes
                 /\ events'[m] = Event(o, "object")
                 /\ \A n \in Changes : events'[n] = events[n]
    BY SendStep DEF TypeInv, Update, Kinds
  <1>2. /\ \A p \in Objects \ {o} : row'[p] = row[p]
        /\ row'[o].retired = row[o].retired
        /\ overlapped \subseteq overlapped'
        /\ BeingRead(o) => o \in overlapped'
        /\ names' = names /\ info' = info /\ lookup' = lookup
    BY DEF TypeInv, DbTyped, RowType, Update, Touch, cacheVars
  <1>3. LookupsCurrent'
    <2> SUFFICES ASSUME NEW l \in Lookups, lookup[l].at = "read",
                        lookup[l].object \notin overlapped'
                 PROVE  lookup[l].name = row'[lookup[l].object].name
      BY <1>2 DEF LookupsCurrent
    <2>1. lookup[l].object \in Objects
      BY DEF TypeInv, CacheTyped
    <2>2. lookup[l].object /= o
      BY <1>2 DEF BeingRead
    <2> QED
      BY <1>2, <2>1, <2>2 DEF CacheInv, LookupsCurrent
  <1>4. Flushing(o)'
    BY <1>1 DEF Flushing, Event
  <1>5. \A p \in Objects : Flushing(p) => Flushing(p)'
    BY <1>1 DEF Flushing
  <1>6. NamesKept'
    BY <1>2, <1>4, <1>5 DEF CacheInv, NamesKept
  <1>7. \A p \in Objects : row'[p].retired = row[p].retired
    BY <1>2
  <1>8. \A n \in Changes : EventKept(events[n])'
    <2> SUFFICES ASSUME NEW n \in Changes PROVE EventKept(events[n])'
      OBVIOUS
    <2>1. events[n].object \in Objects
      BY EventTyped DEF TypeInv, EventType
    <2> QED
      BY <1>1, <1>2, <1>7, <2>1 DEF CacheInv, EventsKept, EventKept
  <1>9. EventKept(events[m])'
    BY <1>1, <1>7 DEF EventKept, Event
  <1>10. EventsKept'
    BY <1>1, <1>8, <1>9 DEF EventsKept
  <1> QED
    BY <1>3, <1>6, <1>10 DEF CacheInv

LEMMA UpdateRetiredCache ==
    ASSUME TypeInv, CacheInv, NEW o \in Objects, UpdateRetired(o)
    PROVE  CacheInv'
  <1>1. /\ \A p \in Objects \ {o} : row'[p] = row[p]
        /\ row'[o].retired /\ row'[o].name = row[o].name
        /\ overlapped \subseteq overlapped'
        /\ BeingRead(o) => o \in overlapped'
        /\ names' = names /\ info' = info /\ lookup' = lookup /\ events' = events
    BY DEF TypeInv, DbTyped, RowType, UpdateRetired, Touch, cacheVars
  <1>2. \A p \in Objects : row'[p].name = row[p].name
    BY <1>1
  <1>3. LookupsCurrent'
    <2> SUFFICES ASSUME NEW l \in Lookups, lookup[l].at = "read",
                        lookup[l].object \notin overlapped'
                 PROVE  lookup[l].name = row'[lookup[l].object].name
      BY <1>1 DEF LookupsCurrent
    <2>1. lookup[l].object \in Objects
      BY DEF TypeInv, CacheTyped
    <2> QED
      BY <1>1, <1>2, <2>1 DEF CacheInv, LookupsCurrent
  <1>4. NamesKept'
    BY <1>1, <1>2 DEF CacheInv, NamesKept, Flushing, Changes
  <1>5. EventsKept'
    <2> SUFFICES ASSUME NEW n \in Changes PROVE EventKept(events[n])'
      BY <1>1 DEF EventsKept, Changes
    <2>1. events[n].object \in Objects
      BY EventTyped DEF TypeInv, EventType
    <2>2. EventKept(events[n])
      BY DEF CacheInv, EventsKept
    <2>3. events[n].at = "read" /\ events[n].object = o => o \in overlapped'
      BY <1>1 DEF BeingRead
    <2>4. CASE events[n].object = o
      BY <1>1, <2>2, <2>3, <2>4 DEF EventKept
    <2>5. CASE events[n].object /= o
      BY <1>1, <2>1, <2>2, <2>5 DEF EventKept
    <2> QED
      BY <2>4, <2>5
  <1> QED
    BY <1>3, <1>4, <1>5 DEF CacheInv

LEMMA LookupCache ==
    ASSUME TypeInv, CacheInv, NEW l \in Lookups,
           StoreName(l) \/ \E o \in LookedUp : ReadName(l, o)
    PROVE  CacheInv'
  <1>1. /\ lookup \in [Lookups -> LookupType] /\ names \in [Objects -> Names \cup {None}]
        /\ LookupsCurrent /\ NamesKept /\ EventsKept
    BY DEF TypeInv, CacheTyped, CacheInv
  <1>2. UNCHANGED <<row, events, info, overlapped>>
    BY DEF StoreName, ReadName, dbVars, cacheVars
  <1>3. EventsKept'
    BY <1>1, <1>2 DEF EventsKept, EventKept, Changes
  <1>4. \A o \in Objects : Flushing(o)' <=> Flushing(o)
    BY <1>2 DEF Flushing, Changes
  <1>5. CASE StoreName(l)
    <2>1. LookupsCurrent'
      BY <1>1, <1>2, <1>5 DEF StoreName, LookupsCurrent, IdleLookup
    <2>2. /\ lookup[l].object \in Objects
          /\ lookup[l].object \notin overlapped => lookup[l].name = row[lookup[l].object].name
          /\ names' = [names EXCEPT ![lookup[l].object] = lookup[l].name]
      BY <1>1, <1>5 DEF StoreName, TypeInv, CacheTyped, LookupsCurrent
    <2>3. NamesKept'
      BY <1>1, <1>2, <1>4, <2>2 DEF NamesKept
    <2> QED
      BY <1>3, <2>1, <2>3 DEF CacheInv
  <1>6. ASSUME NEW o \in LookedUp, ReadName(l, o) PROVE CacheInv'
    <2>1. LookupsCurrent'
      BY <1>1, <1>2, <1>6 DEF ReadName, LookupsCurrent
    <2>2. NamesKept'
      BY <1>1, <1>2, <1>4, <1>6 DEF NamesKept, ReadName, cacheVars
    <2> QED
      BY <1>3, <2>1, <2>2 DEF CacheInv
  <1> QED
    BY <1>5, <1>6

LEMMA HandleEventCache ==
    ASSUME TypeInv, CacheInv, NEW n \in Changes,
           IgnoreEvent(n) \/ HandleXref(n) \/ ReadSystemObject(n) \/ FlushObject(n)
    PROVE  CacheInv'
  <1>1. PICK e \in EventType : e = events[n]
    BY EventTyped DEF TypeInv
  <1>2. e.object \in Objects /\ EventKept(e)
    BY <1>1 DEF EventType, CacheInv, EventsKept
  <1>3. /\ LookupsCurrent /\ NamesKept /\ EventsKept /\ EventsTyped
        /\ names \in [Objects -> Names \cup {None}] /\ info \in [Objects -> BOOLEAN]
    BY DEF CacheInv, TypeInv, CacheTyped
  <1>4. UNCHANGED <<row, lookup, overlapped>>
    BY DEF IgnoreEvent, HandleXref, ReadSystemObject, FlushObject, dbVars
  <1>5. LookupsCurrent'
    BY <1>3, <1>4 DEF LookupsCurrent
  <1>6. PICK done \in EventType :
            /\ done = [events[n] EXCEPT !.at = "done"]
            /\ done.at = "done" /\ done.object = e.object /\ done.kind = e.kind
            /\ done.after = e.after /\ done.retired = e.retired
    BY <1>1, EventDone, Zenon
  <1>7. CASE IgnoreEvent(n) \/ HandleXref(n)
    <2>1. /\ events' = [events EXCEPT ![n] = done] /\ e.kind /= "object"
          /\ names' = names /\ info' = info
      BY <1>1, <1>6, <1>7 DEF IgnoreEvent, HandleXref, cacheVars
    <2>2. Changes' = Changes /\ events'[n] = done
          /\ \A m \in Changes \ {n} : events'[m] = events[m]
      BY <1>3, <2>1, MarkStep
    <2>3. \A o \in Objects : Flushing(o) => Flushing(o)'
      BY <1>1, <2>1, <2>2 DEF Flushing
    <2>4. NamesKept'
      BY <1>3, <1>4, <2>1, <2>3 DEF NamesKept
    <2>5. EventKept(done)'
      BY <1>2, <1>4, <1>6, <2>1 DEF EventKept
    <2>6. \A m \in Changes \ {n} : EventKept(events[m])'
      BY <1>3, <1>4, <2>1, <2>2 DEF EventsKept, EventKept
    <2>7. EventsKept'
      BY <2>2, <2>5, <2>6 DEF EventsKept, EventKept
    <2> QED
      BY <1>5, <2>4, <2>7 DEF CacheInv
  <1>8. CASE ReadSystemObject(n)
    <2>1. PICK retired \in BOOLEAN : retired = row[e.object].retired
      BY <1>2 DEF TypeInv, DbTyped, RowType
    <2>2. PICK read \in EventType :
            /\ read = [events[n] EXCEPT !.at = "read", !.retired = retired]
            /\ read.at = "read" /\ read.object = e.object /\ read.kind = e.kind
            /\ read.after = e.after /\ read.retired = retired
      <3> DEFINE new == [e EXCEPT !.at = "read", !.retired = retired]
      <3>1. /\ new \in EventType
            /\ new.at = "read" /\ new.object = e.object /\ new.kind = e.kind
            /\ new.after = e.after /\ new.retired = retired
        BY EventRead, Zenon
      <3>2. new = [events[n] EXCEPT !.at = "read", !.retired = retired]
        BY <1>1, Zenon
      <3> HIDE DEF new
      <3> QED
        BY <3>1, <3>2, Zenon
    <2>3. events' = [events EXCEPT ![n] = read] /\ names' = names /\ info' = info
      BY <1>1, <1>8, <2>1, <2>2 DEF ReadSystemObject, cacheVars
    <2>4. Changes' = Changes /\ events'[n] = read
          /\ \A m \in Changes \ {n} : events'[m] = events[m]
      BY <1>3, <2>3, MarkStep
    <2>5. ASSUME NEW o \in Objects, Flushing(o) PROVE Flushing(o)'
      <3>1. PICK m \in Changes : /\ events[m].kind = "object" /\ events[m].object = o
                                 /\ events[m].at /= "done"
        BY <2>5 DEF Flushing
      <3>2. /\ events'[m].kind = "object" /\ events'[m].object = o
            /\ events'[m].at /= "done"
        BY <1>1, <2>2, <2>4, <3>1
      <3> QED
        BY <2>4, <3>2 DEF Flushing
    <2>6. NamesKept'
      BY <1>3, <1>4, <2>3, <2>5 DEF NamesKept
    <2>7. EventKept(read)'
      BY <1>2, <1>4, <2>1, <2>2, <2>3 DEF EventKept
    <2>8. \A m \in Changes \ {n} : EventKept(events[m])'
      BY <1>3, <1>4, <2>3, <2>4 DEF EventsKept, EventKept
    <2>9. EventsKept'
      BY <2>4, <2>7, <2>8 DEF EventsKept, EventKept
    <2> QED
      BY <1>5, <2>6, <2>9 DEF CacheInv
  <1>9. CASE FlushObject(n)
    <2>1. /\ events' = [events EXCEPT ![n] = done] /\ e.at = "read"
          /\ names' = [names EXCEPT ![e.object] = None]
          /\ info' = [info EXCEPT ![e.object] = e.retired]
      BY <1>1, <1>6, <1>9 DEF FlushObject
    <2>2. Changes' = Changes /\ events'[n] = done
          /\ \A m \in Changes \ {n} : events'[m] = events[m]
      BY <1>3, <2>1, MarkStep
    <2>3. \A o \in Objects \ {e.object} : Flushing(o) => Flushing(o)'
      BY <1>1, <2>2 DEF Flushing
    <2>4. NamesKept'
      BY <1>2, <1>3, <1>4, <2>1, <2>3 DEF NamesKept
    <2>5. /\ \A o \in Objects \ {e.object} : info'[o] = info[o]
          /\ info'[e.object] = e.retired
      BY <1>2, <1>3, <2>1
    <2>6. e.object \notin overlapped => e.retired = row[e.object].retired
      BY <1>2, <2>1 DEF EventKept
    <2>7. EventKept(done)'
      BY <1>2, <1>4, <1>6, <2>5, <2>6 DEF EventKept
    <2>8. ASSUME NEW m \in Changes \ {n} PROVE EventKept(events[m])'
      <3>1. EventKept(events[m]) /\ events[m].object \in Objects
        BY <1>3, EventTyped DEF EventsKept, EventType
      <3>2. events'[m] = events[m]
        BY <2>2
      <3>3. CASE events[m].object = e.object
        BY <1>4, <2>5, <2>6, <3>1, <3>2, <3>3 DEF EventKept
      <3>4. CASE events[m].object /= e.object
        BY <1>4, <2>5, <3>1, <3>2, <3>4 DEF EventKept
      <3> QED
        BY <3>3, <3>4
    <2>9. EventsKept'
      BY <2>2, <2>7, <2>8 DEF EventsKept, EventKept
    <2> QED
      BY <1>5, <2>4, <2>9 DEF CacheInv
  <1> QED
    BY <1>7, <1>8, <1>9

LEMMA NextCache == TypeInv /\ CacheInv /\ [Next]_vars => CacheInv'
  <1> SUFFICES ASSUME TypeInv, CacheInv, [Next]_vars PROVE CacheInv'
    OBVIOUS
  <1>1. ASSUME NEW o \in Objects, RetireObject(o) PROVE CacheInv'
    BY <1>1, OtherEventCache DEF RetireObject, Kinds
  <1>2. ASSUME NEW o \in Objects, UpdateRetired(o) PROVE CacheInv'
    BY <1>2, UpdateRetiredCache
  <1>3. ASSUME NEW o \in Objects, NEW n \in Names, Update(o, n) PROVE CacheInv'
    BY <1>3, UpdateCache
  <1>4. ASSUME NEW l \in Links, CreateXref(l) PROVE CacheInv'
    <2>1. l[2] \in Objects
      BY ConstantsAssumption
    <2> QED
      BY <1>4, <2>1, OtherEventCache DEF CreateXref, Kinds
  <1>5. CASE HandleEvent
    BY <1>5, HandleEventCache DEF HandleEvent
  <1>6. ASSUME NEW l \in Lookups, StoreName(l) \/ \E o \in LookedUp : ReadName(l, o)
        PROVE  CacheInv'
    BY <1>6, LookupCache
  <1>7. ASSUME (\E i \in Indexers : IndexObjects(i)) \/ FullIndex PROVE CacheInv'
    BY <1>7, IndexingLeavesCache, CacheLeftAlone
  <1>8. CASE UNCHANGED vars
    BY <1>8, CacheLeftAlone DEF vars
  <1> QED
    BY <1>1, <1>2, <1>3, <1>4, <1>5, <1>6, <1>7, <1>8 DEF Next

LEMMA CacheAlways == Spec => [](TypeInv /\ CacheInv)
  <1>1. Init => TypeInv /\ CacheInv
    BY InitType, InitCache
  <1>2. (TypeInv /\ CacheInv) /\ [Next]_vars => (TypeInv /\ CacheInv)'
    BY NextType, NextCache
  <1> QED
    BY <1>1, <1>2, PTL DEF Spec

(* Once all events are handled, the name in the cache is the current one,  *)
(* however lookups, flushes and changes of other objects interleaved       *)
(* (SystemObjectCache.flushObject comes after the write).                  *)
THEOREM NamesCurrentAlways == Spec => []NamesCurrent
  <1>1. TypeInv /\ CacheInv => NamesCurrent
    BY DEF CacheInv, NamesKept, Flushing, NamesCurrent, EventsHandled
  <1> QED
    BY <1>1, CacheAlways, PTL

(* Once all events are handled, an update made of a retired object has     *)
(* told the cache that it is retired (SystemObjectCache.flushObject).      *)
THEOREM RetiredSeenAlways == Spec => []RetiredSeenByUpdate
  <1>1. TypeInv /\ CacheInv => RetiredSeenByUpdate
    BY DEF CacheInv, EventsKept, EventKept, RetiredSeenByUpdate, EventsHandled
  <1> QED
    BY <1>1, CacheAlways, PTL

-----------------------------------------------------------------------------
(* The index.                                                              *)

(* The object will be indexed: an event that schedules it is waiting, the  *)
(* timer runs, or an indexer has it before it.                             *)
Due(o) ==
    \/ \E n \in Changes : /\ events[n].kind \in {"object", "SystemObjectXref"}
                          /\ events[n].object = o /\ events[n].at /= "done"
    \/ o \in objectIndexSet
    \/ \E i \in Indexers : o \in indexer[i].todo

(* What a document tells, and what an indexer or a full index will tell    *)
(* when it adds its documents.                                             *)
Tells(document, name, parents) ==
    document.name = name /\ {a[1] : a \in document.above} = parents

Has(x, o) == x.at \in {"graph", "doc"} /\ x.object = o

WillTell(x, name, parents) ==
    /\ x.at = "graph" => x.graph.parents = parents
    /\ x.at = "doc" => Tells(x.doc, name, parents)

FullTells(f, o, name, parents) ==
    /\ f.at = "graph" => f.graph[o].parents = parents
    /\ f.at = "docs" => Tells(f.docs[o], name, parents)

FullHasChild(f, o, c) ==
    /\ f.at = "graph" => c \in f.graph[o].below
    /\ f.at = "docs" => c \in f.docs[o].below

(* The document of an object is current, and so is all that may replace    *)
(* it; or something current is on its way.                                 *)
SelfWritten(o) ==
    /\ Tells(solr[o], row[o].name, Parents(o, xref))
    /\ \A i \in Indexers : Has(indexer[i], o) => WillTell(indexer[i], row[o].name, Parents(o, xref))
    /\ FullTells(full, o, row[o].name, Parents(o, xref))

SelfKept(o) ==
    \/ Due(o)
    \/ \E i \in Indexers : /\ Has(indexer[i], o)
                           /\ WillTell(indexer[i], row[o].name, Parents(o, xref))
    \/ SelfWritten(o)

(* The document of a parent has its child, and a full index will not take  *)
(* it away; or an indexing of the child will tell the parent.              *)
ChildWritten(o, c) == c \in solr[o].below /\ FullHasChild(full, o, c)

Brings(x, o, c) == Has(x, c) /\ o \in x.graph.parents /\ c \in x.graph.below

ChildKept(o, c) ==
    \/ Due(c)
    \/ \E i \in Indexers : Brings(indexer[i], o, c)
    \/ ChildWritten(o, c)

IndexKept(o) == SelfKept(o) /\ \A c \in Children(o, xref) : ChildKept(o, c)

IdleKept == \A i \in Indexers : indexer[i].at = "idle" => indexer[i].todo = {}

IndexInv == IdleKept /\ (failures = 0 => \A o \in Objects \ crossed : IndexKept(o))

(* What is made of a graph tells what the graph does.                      *)
LEMMA DocumentTells ==
    ASSUME NEW o, NEW g
    PROVE  /\ Tells(Document(o, g), row[o].name, g.parents)
           /\ Document(o, g).below = g.below
  <1> DEFINE Above == {<<p, row[p].name>> : p \in g.parents}
  <1>1. {a[1] : a \in Above} = g.parents
    <2>1. \A p \in g.parents : <<p, row[p].name>> \in Above /\ <<p, row[p].name>>[1] = p
      OBVIOUS
    <2>2. \A a \in Above : a[1] \in g.parents
      OBVIOUS
    <2> HIDE DEF Above
    <2> QED
      BY <2>1, <2>2
  <1> QED
    BY <1>1 DEF Document, Tells

LEMMA BelowAdded ==
    ASSUME NEW d \in DocumentType, NEW more
    PROVE  LET e == [d EXCEPT !.below = d.below \cup more]
           IN  /\ e.below = d.below \cup more
               /\ \A name, parents : Tells(d, name, parents) => Tells(e, name, parents)
  BY DEF DocumentType, Tells

LEMMA BetweenIs ==
    ASSUME NEW todo
    PROVE  /\ Between(todo).todo = todo /\ (Between(todo).at = "idle" => todo = {})
           /\ \A o : ~ Has(Between(todo), o)
  BY DEF Between, Has

LEMMA InitIndex == Init => IndexInv
  <1> SUFFICES ASSUME Init PROVE IndexInv
    OBVIOUS
  <1>1. \A i \in Indexers : indexer[i] = Between({})
    BY DEF Init, Idle
  <1>2. IdleKept
    BY <1>1, BetweenIs DEF IdleKept
  <1>3. ASSUME NEW o \in Objects PROVE IndexKept(o)
    <2>1. /\ FullGraph[o].parents = Parents(o, xref)
          /\ solr[o] = Document(o, FullGraph[o])
      BY DEF Init, FullGraph
    <2>2. Tells(solr[o], row[o].name, Parents(o, xref))
      BY <2>1, DocumentTells
    <2>3. FullTells(full, o, row[o].name, Parents(o, xref))
      BY DEF Init, IdleFull, FullTells
    <2>4. SelfWritten(o)
      BY <1>1, <2>2, <2>3, BetweenIs DEF SelfWritten
    <2>5. Children(o, xref) = {}
      BY DEF Init, Children
    <2> QED
      BY <2>4, <2>5 DEF IndexKept, SelfKept
  <1> QED
    BY <1>2, <1>3 DEF IndexInv

(* A step that changes nothing of the index, when what it changes is due.  *)
LEMMA ChangeIndex ==
    ASSUME IndexInv, UNCHANGED <<indexer, full, solr, failures, crossed>>,
           NEW C,
           \A o \in C : Due(o)',
           \A o \in Objects : Due(o) => Due(o)',
           \A o \in Objects \ C : row'[o].name = row[o].name /\ Parents(o, xref') = Parents(o, xref),
           \A o \in Objects : Children(o, xref') \subseteq Children(o, xref) \cup C,
           xref \subseteq Objects \X Objects
    PROVE  IndexInv'
  <1>1. IdleKept'
    BY DEF IndexInv, IdleKept
  <1>2. ASSUME NEW o \in Objects, IndexKept(o) PROVE IndexKept(o)'
    <2>1. SelfKept(o)'
      BY <1>2 DEF IndexKept, SelfKept, SelfWritten
    <2>2. ASSUME NEW c \in Children(o, xref') PROVE ChildKept(o, c)'
      <3>1. CASE c \in C
        BY <3>1 DEF ChildKept
      <3>2. CASE c \in Children(o, xref)
        <4>1. c \in Objects
          BY <3>2 DEF Children
        <4> QED
          BY <1>2, <3>2, <4>1 DEF IndexKept, ChildKept, ChildWritten
      <3> QED
        BY <3>1, <3>2
    <2> QED
      BY <2>1, <2>2 DEF IndexKept
  <1> QED
    BY <1>1, <1>2 DEF IndexInv

LEMMA QuietIndex ==
    ASSUME IndexInv, UNCHANGED <<xref, indexer, full, solr, failures, crossed>>,
           \A o \in Objects : Due(o) => Due(o)',
           \A o \in Objects : row'[o].name = row[o].name,
           xref \subseteq Objects \X Objects
    PROVE  IndexInv'
  <1> DEFINE C == {}
  <1>1. \A o \in C : Due(o)'
    OBVIOUS
  <1>2. \A o \in Objects \ C : row'[o].name = row[o].name /\ Parents(o, xref') = Parents(o, xref)
    OBVIOUS
  <1> HIDE DEF C
  <1>3. \A o \in Objects : Children(o, xref') \subseteq Children(o, xref) \cup C
    OBVIOUS
  <1> QED
    BY <1>1, <1>2, <1>3, ChangeIndex

LEMMA DueKept ==
    ASSUME UNCHANGED <<events, objectIndexSet>>,
           \A i \in Indexers : indexer'[i].todo = indexer[i].todo
    PROVE  \A o \in Objects : Due(o) => Due(o)'
  BY DEF Due, Changes

(* Events move, and objects are scheduled, but no object is forgotten.     *)
LEMMA EventsIndex ==
    ASSUME TypeInv, IndexInv, HandleEvent
    PROVE  IndexInv'
  <1>1. PICK n \in Changes : IgnoreEvent(n) \/ HandleXref(n) \/ ReadSystemObject(n) \/ FlushObject(n)
    BY DEF HandleEvent
  <1>2. events[n] \in EventType /\ EventsTyped /\ xref \subseteq Objects \X Objects
    BY EventTyped, ConstantsAssumption DEF TypeInv, DbTyped
  <1>3. UNCHANGED <<row, xref, indexer, full, solr, failures, crossed>>
    BY <1>1 DEF IgnoreEvent, HandleXref, ReadSystemObject, FlushObject, dbVars, indexVars
  <1>4. ASSUME NEW e \in EventType, events' = [events EXCEPT ![n] = e],
               e.object = events[n].object, e.kind = events[n].kind,
               objectIndexSet \subseteq objectIndexSet',
               \/ e.at /= "done" \/ events[n].at = "done"
               \/ e.object \in objectIndexSet'
               \/ e.kind = "SystemObject"
        PROVE  IndexInv'
    <2>1. /\ Changes' = Changes /\ events'[n] = e
          /\ \A m \in Changes \ {n} : events'[m] = events[m]
      BY <1>2, <1>4, MarkStep
    <2>2. \A o \in Objects : Due(o) => Due(o)'
      BY <1>3, <1>4, <2>1 DEF Due
    <2> QED
      BY <1>2, <1>3, <2>2, QuietIndex
  <1>5. PICK done \in EventType :
            /\ done = [events[n] EXCEPT !.at = "done"] /\ done.at = "done"
            /\ done.object = events[n].object /\ done.kind = events[n].kind
    BY <1>2, EventDone
  <1>6. CASE IgnoreEvent(n)
    <2>1. events' = [events EXCEPT ![n] = done]
          /\ events[n].kind = "SystemObject" /\ objectIndexSet' = objectIndexSet
      BY <1>6, <1>5 DEF IgnoreEvent, indexVars
    <2> QED
      BY <1>4, <1>5, <2>1
  <1>7. CASE HandleXref(n)
    <2>1. events' = [events EXCEPT ![n] = done]
          /\ objectIndexSet' = objectIndexSet \cup {events[n].object}
      BY <1>7, <1>5 DEF HandleXref, Schedule
    <2>2. objectIndexSet \subseteq objectIndexSet' /\ done.object \in objectIndexSet'
      BY <1>5, <2>1
    <2> QED
      BY <1>4, <1>5, <2>1, <2>2
  <1>8. CASE FlushObject(n)
    <2>1. events' = [events EXCEPT ![n] = done]
          /\ objectIndexSet' = objectIndexSet \cup {events[n].object}
      BY <1>8, <1>5 DEF FlushObject, Schedule
    <2>2. objectIndexSet \subseteq objectIndexSet' /\ done.object \in objectIndexSet'
      BY <1>5, <2>1
    <2> QED
      BY <1>4, <1>5, <2>1, <2>2
  <1>9. CASE ReadSystemObject(n)
    <2>1. PICK retired \in BOOLEAN : retired = row[events[n].object].retired
      BY <1>2 DEF TypeInv, DbTyped, RowType, EventType
    <2>2. PICK e \in EventType : /\ e = [events[n] EXCEPT !.at = "read", !.retired = retired]
                                 /\ e.at = "read" /\ e.object = events[n].object
                                 /\ e.kind = events[n].kind
      BY <1>2, <2>1, EventRead
    <2>3. events' = [events EXCEPT ![n] = e] /\ objectIndexSet' = objectIndexSet
      BY <1>9, <2>1, <2>2 DEF ReadSystemObject, indexVars
    <2> QED
      BY <1>4, <2>2, <2>3
  <1> QED
    BY <1>1, <1>6, <1>7, <1>8, <1>9

(* A change sends the event that makes the object due.                     *)
LEMMA SentIndex ==
    ASSUME TypeInv, IndexInv, NEW o \in Objects, NEW kind \in Kinds,
           MayChange, Send(o, kind), UNCHANGED indexVars,
           \A p \in Objects : p /= o \/ kind = "SystemObject" =>
               row'[p].name = row[p].name /\ Parents(p, xref') = Parents(p, xref),
           \A p \in Objects : Children(p, xref') \subseteq Children(p, xref)
                                 \cup IF kind = "SystemObject" THEN {} ELSE {o}
    PROVE  IndexInv'
  <1>1. PICK m : /\ Changes' = Changes \cup {m} /\ m \notin Changes
                 /\ events'[m] = Event(o, kind)
                 /\ \A n \in Changes : events'[n] = events[n]
    BY SendStep DEF TypeInv
  <1>2. events'[m].kind = kind /\ events'[m].object = o /\ events'[m].at = "sent"
    BY <1>1 DEF Event
  <1>3. \A p \in Objects : Due(p) => Due(p)'
    BY <1>1 DEF Due, indexVars
  <1> DEFINE C == IF kind = "SystemObject" THEN {} ELSE {o}
  <1>4. \A p \in C : Due(p)'
    BY <1>1, <1>2 DEF Due, Kinds
  <1>5. xref \subseteq Objects \X Objects
    BY ConstantsAssumption DEF TypeInv, DbTyped
  <1>6. \A p \in Objects \ C : row'[p].name = row[p].name /\ Parents(p, xref') = Parents(p, xref)
    OBVIOUS
  <1>7. UNCHANGED <<indexer, full, solr, failures, crossed>>
    BY DEF indexVars
  <1> HIDE DEF C
  <1>8. \A p \in Objects : Children(p, xref') \subseteq Children(p, xref) \cup C
    BY DEF C
  <1> QED
    BY <1>3, <1>4, <1>5, <1>6, <1>7, <1>8, ChangeIndex

LEMMA ObjectIndex ==
    ASSUME TypeInv, IndexInv, NEW o \in Objects,
           RetireObject(o) \/ UpdateRetired(o) \/ \E n \in Names : Update(o, n)
    PROVE  IndexInv'
  <1>0. row \in [Objects -> RowType] /\ xref \subseteq Objects \X Objects
    BY ConstantsAssumption DEF TypeInv, DbTyped
  <1>1. CASE RetireObject(o)
    <2>1. UNCHANGED <<row, xref, indexVars>> /\ MayChange /\ Send(o, "SystemObject")
      BY <1>1 DEF RetireObject
    <2> QED
      BY <2>1, SentIndex DEF Kinds
  <1>2. CASE UpdateRetired(o)
    <2>1. UNCHANGED <<xref, events, indexVars>>
      BY <1>2 DEF UpdateRetired
    <2>2. \A p \in Objects : row'[p].name = row[p].name
      BY <1>0, <1>2 DEF UpdateRetired, RowType
    <2>3. \A p \in Objects : Due(p) => Due(p)'
      BY <2>1, DueKept DEF indexVars
    <2>4. UNCHANGED <<indexer, full, solr, failures, crossed>>
      BY <2>1 DEF indexVars
    <2> QED
      BY <1>0, <2>1, <2>2, <2>3, <2>4, QuietIndex
  <1>3. ASSUME NEW n \in Names, Update(o, n) PROVE IndexInv'
    <2>1. UNCHANGED <<xref, indexVars>> /\ MayChange /\ Send(o, "object")
      BY <1>3 DEF Update
    <2>2. \A p \in Objects : p /= o => row'[p] = row[p]
      BY <1>0, <1>3 DEF Update
    <2>3. \A p \in Objects : p /= o => row'[p].name = row[p].name /\ Parents(p, xref') = Parents(p, xref)
      BY <2>1, <2>2
    <2>4. \A p \in Objects : Children(p, xref') \subseteq Children(p, xref) \cup {o}
      BY <2>1
    <2> QED
      BY <2>1, <2>3, <2>4, SentIndex DEF Kinds
  <1> QED
    BY <1>1, <1>2, <1>3

LEMMA XrefIndex ==
    ASSUME TypeInv, IndexInv, NEW l \in Links, CreateXref(l)
    PROVE  IndexInv'
  <1>1. PICK p, c : p \in Objects /\ c \in Objects /\ l = <<p, c>> /\ l[2] = c
    BY ConstantsAssumption
  <1>2. UNCHANGED <<row, indexVars>> /\ MayChange /\ Send(c, "SystemObjectXref")
        /\ xref' = xref \cup {<<p, c>>}
    BY <1>1 DEF CreateXref
  <1>3. \A o \in Objects : o /= c => row'[o].name = row[o].name /\ Parents(o, xref') = Parents(o, xref)
    BY <1>2 DEF Parents
  <1>4. \A o \in Objects : Children(o, xref') \subseteq Children(o, xref) \cup {c}
    BY <1>2 DEF Children
  <1> QED
    BY <1>1, <1>2, <1>3, <1>4, SentIndex DEF Kinds

(* An indexer, while the index stays as it is: what it gives up, it had    *)
(* before it and now tells; and it keeps telling what it told.             *)
LEMMA IndexerIndex ==
    ASSUME IndexInv, NEW i \in Indexers, NEW new,
           indexer \in [Indexers -> IndexerType],
           indexer' = [indexer EXCEPT ![i] = new],
           UNCHANGED <<row, xref, full, solr, failures, crossed>>,
           new.at = "idle" => new.todo = {},
           \A o \in Objects :
               \/ Due(o) => Due(o)'
               \/ /\ Has(new, o) /\ WillTell(new, row[o].name, Parents(o, xref))
                  /\ \A p \in Objects : o \in Children(p, xref) => Brings(new, p, o),
           \A o \in Objects :
               /\ Has(indexer[i], o) => Has(new, o)
               /\ Has(indexer[i], o) /\ WillTell(indexer[i], row[o].name, Parents(o, xref))
                     => WillTell(new, row[o].name, Parents(o, xref))
               /\ Has(new, o) => \/ Has(indexer[i], o)
                                 \/ WillTell(new, row[o].name, Parents(o, xref))
               /\ \A p \in Objects : Brings(indexer[i], p, o) => Brings(new, p, o)
    PROVE  IndexInv'
  <1>1. indexer'[i] = new /\ \A j \in Indexers \ {i} : indexer'[j] = indexer[j]
    OBVIOUS
  <1>2. IdleKept'
    BY <1>1 DEF IndexInv, IdleKept
  <1>3. ASSUME NEW o \in Objects, IndexKept(o) PROVE IndexKept(o)'
    <2>1. SelfKept(o)'
      <3>1. CASE Due(o)
        BY <1>1, <3>1 DEF SelfKept
      <3>2. CASE \E j \in Indexers : /\ Has(indexer[j], o)
                                     /\ WillTell(indexer[j], row[o].name, Parents(o, xref))
        BY <1>1, <3>2 DEF SelfKept
      <3>3. CASE SelfWritten(o)
        <4>1. \A j \in Indexers : Has(indexer'[j], o) => WillTell(indexer'[j], row[o].name, Parents(o, xref))
          BY <1>1, <3>3 DEF SelfWritten
        <4> QED
          BY <3>3, <4>1 DEF SelfWritten, SelfKept
      <3> QED
        BY <1>3, <3>1, <3>2, <3>3 DEF IndexKept, SelfKept
    <2>2. ASSUME NEW c \in Children(o, xref) PROVE ChildKept(o, c)'
      <3>0. c \in Objects /\ ChildKept(o, c)
        BY <1>3 DEF Children, IndexKept
      <3>1. CASE Due(c)
        BY <1>1, <3>0, <3>1 DEF ChildKept
      <3>2. CASE \E j \in Indexers : Brings(indexer[j], o, c)
        BY <1>1, <3>0, <3>2 DEF ChildKept
      <3>3. CASE ChildWritten(o, c)
        BY <3>3 DEF ChildKept, ChildWritten
      <3> QED
        BY <3>0, <3>1, <3>2, <3>3 DEF ChildKept
    <2> QED
      BY <2>1, <2>2 DEF IndexKept
  <1> QED
    BY <1>2, <1>3 DEF IndexInv

LEMMA TakeObjectsIndex ==
    ASSUME TypeInv, IndexInv, NEW i \in Indexers, TakeObjects(i)
    PROVE  IndexInv'
  <1>0. indexer \in [Indexers -> IndexerType]
    BY DEF TypeInv, IndexTyped
  <1> DEFINE new == Between(objectIndexSet)
  <1>1. new.todo = objectIndexSet /\ (new.at = "idle" => new.todo = {}) /\ \A o : ~ Has(new, o)
    BY BetweenIs
  <1>2. /\ indexer[i].at = "idle" /\ indexer' = [indexer EXCEPT ![i] = new]
        /\ UNCHANGED <<row, xref, events, full, solr, failures, crossed>>
    BY DEF TakeObjects, dbVars
  <1>3. \A o \in Objects : ~ Has(indexer[i], o)
    BY <1>2 DEF Has
  <1>4. indexer[i].todo = {}
    BY <1>2 DEF IndexInv, IdleKept
  <1> HIDE DEF new
  <1>5. indexer'[i] = new /\ \A j \in Indexers \ {i} : indexer'[j] = indexer[j]
    BY <1>0, <1>2
  <1>6. \A o \in Objects : Due(o) => Due(o)'
    BY <1>1, <1>2, <1>4, <1>5 DEF Due, Changes
  <1>7. \A o, p \in Objects : ~ Brings(indexer[i], p, o)
    BY <1>3 DEF Brings
  <1> QED
    BY <1>0, <1>1, <1>2, <1>3, <1>6, <1>7, IndexerIndex

LEMMA ComputeGraphIndex ==
    ASSUME TypeInv, IndexInv, NEW i \in Indexers, NEW o \in Objects, ComputeGraph(i, o)
    PROVE  IndexInv'
  <1>0. indexer \in [Indexers -> IndexerType]
    BY DEF TypeInv, IndexTyped
  <1>1. PICK new : new = [indexer[i] EXCEPT !.at = "graph", !.todo = indexer[i].todo \ {o},
                                            !.object = o, !.graph = Graph(o)]
    OBVIOUS
  <1>2. /\ new.at = "graph" /\ new.todo = indexer[i].todo \ {o}
        /\ new.object = o /\ new.graph = Graph(o)
    BY <1>0, <1>1 DEF IndexerType
  <1>3. /\ indexer[i].at = "next"
        /\ UNCHANGED <<row, xref, events, objectIndexSet, full, solr, failures, crossed>>
    BY DEF ComputeGraph, dbVars
  <1>4. indexer' = [indexer EXCEPT ![i] = new]
    BY <1>1, Zenon DEF ComputeGraph
  <1>5. indexer'[i] = new /\ \A j \in Indexers \ {i} : indexer'[j] = indexer[j]
    BY <1>0, <1>4
  <1>6. \A p \in Objects : ~ Has(indexer[i], p) /\ \A q \in Objects : ~ Brings(indexer[i], q, p)
    BY <1>3 DEF Has, Brings
  <1>7. \A p \in Objects : p /= o => (Due(p) => Due(p)')
    BY <1>2, <1>3, <1>5 DEF Due, Changes
  <1>8. /\ Has(new, o) /\ WillTell(new, row[o].name, Parents(o, xref))
        /\ \A p \in Objects : o \in Children(p, xref) => Brings(new, p, o)
    BY <1>2 DEF Has, WillTell, Brings, Graph, Parents, Children
  <1>9. \A p \in Objects : Has(new, p) => p = o
    BY <1>2 DEF Has
  <1>10. new.at /= "idle"
    BY <1>2
  <1>11. \A p \in Objects :
               \/ Due(p) => Due(p)'
               \/ /\ Has(new, p) /\ WillTell(new, row[p].name, Parents(p, xref))
                  /\ \A q \in Objects : p \in Children(q, xref) => Brings(new, q, p)
    BY <1>7, <1>8
  <1> QED
    BY <1>0, <1>3, <1>4, <1>6, <1>8, <1>9, <1>10, <1>11, IndexerIndex

LEMMA HandleObjectIndex ==
    ASSUME TypeInv, IndexInv, NEW i \in Indexers, HandleObject(i)
    PROVE  IndexInv'
  <1>0. indexer \in [Indexers -> IndexerType]
    BY DEF TypeInv, IndexTyped
  <1> DEFINE o == indexer[i].object
             g == indexer[i].graph
  <1>1. PICK doc : doc = Document(o, g)
    OBVIOUS
  <1>2. Tells(doc, row[o].name, g.parents)
    BY <1>1, DocumentTells
  <1>3. PICK new : new = [indexer[i] EXCEPT !.at = "doc", !.doc = doc]
    OBVIOUS
  <1>4. /\ new.at = "doc" /\ new.todo = indexer[i].todo
        /\ new.object = o /\ new.graph = g /\ new.doc = doc
    BY <1>0, <1>3 DEF IndexerType
  <1>5. /\ indexer[i].at = "graph"
        /\ UNCHANGED <<row, xref, events, objectIndexSet, full, solr, failures, crossed>>
    BY DEF HandleObject, dbVars
  <1>6. indexer' = [indexer EXCEPT ![i] = new]
    BY <1>1, <1>3, Zenon DEF HandleObject
  <1>7. \A j \in Indexers : indexer'[j].todo = indexer[j].todo
    BY <1>0, <1>4, <1>6
  <1>8. \A p \in Objects : Due(p) => Due(p)'
    BY <1>5, <1>7, DueKept
  <1>9. \A p \in Objects :
               /\ Has(indexer[i], p) <=> Has(new, p)
               /\ Has(indexer[i], p) /\ WillTell(indexer[i], row[p].name, Parents(p, xref))
                     => WillTell(new, row[p].name, Parents(p, xref))
               /\ \A q \in Objects : Brings(indexer[i], q, p) => Brings(new, q, p)
    BY <1>2, <1>4, <1>5 DEF Has, WillTell, Brings
  <1> QED
    BY <1>0, <1>4, <1>5, <1>6, <1>8, <1>9, IndexerIndex

(* An indexer writes.  What tells another story of the object, or of a     *)
(* parent, makes that object crossed.                                      *)
LEMMA AddDocumentsIndex ==
    ASSUME TypeInv, IndexInv, NEW i \in Indexers, AddDocuments(i)
    PROVE  IndexInv'
  <1> DEFINE o == indexer[i].object
             g == indexer[i].graph
             d == indexer[i].doc
             others == HeldFull \cup UNION {Held(j) : j \in Indexers \ {i}}
             new == Between(indexer[i].todo)
  <1>0. indexer \in [Indexers -> IndexerType] /\ solr \in [Objects -> DocumentType]
        /\ crossed \subseteq Objects
    BY DEF TypeInv, IndexTyped, SolrTyped
  <1>1. IndexerTyped(indexer[i]) /\ indexer[i].at = "doc" /\ xref \subseteq Links
    BY DEF TypeInv, IndexTyped, DbTyped, AddDocuments
  <1>2. o \in Objects /\ d \in DocumentType /\ Has(indexer[i], o)
    BY <1>1 DEF IndexerTyped, Has
  <1>3. /\ indexer' = [indexer EXCEPT ![i] = new]
        /\ UNCHANGED <<row, xref, events, objectIndexSet, full, failures>>
        /\ crossed' = crossed \cup (({o} \cup g.parents) \cap others)
    BY DEF AddDocuments, dbVars
  <1>4. solr' = [p \in Objects |-> IF p = o THEN [d EXCEPT !.below = d.below \cup solr[p].below]
                                   ELSE IF p \in g.parents
                                        THEN [solr[p] EXCEPT !.below = solr[p].below \cup g.below]
                                        ELSE solr[p]]
    BY Zenon DEF AddDocuments
  <1>5. new.todo = indexer[i].todo /\ (new.at = "idle" => new.todo = {}) /\ \A p : ~ Has(new, p)
    BY BetweenIs
  <1>6. /\ solr'[o].below = d.below \cup solr[o].below
        /\ \A name, parents : Tells(d, name, parents) => Tells(solr'[o], name, parents)
    BY <1>2, <1>4, BelowAdded
  <1>7. ASSUME NEW p \in Objects, p /= o
        PROVE  /\ solr[p].below \subseteq solr'[p].below
               /\ p \in g.parents => g.below \subseteq solr'[p].below
               /\ \A name, parents : Tells(solr[p], name, parents) => Tells(solr'[p], name, parents)
    <2>1. CASE p \in g.parents
      <3>1. solr'[p] = [solr[p] EXCEPT !.below = solr[p].below \cup g.below]
        BY <1>4, <1>7, <2>1
      <3>2. solr[p] \in DocumentType
        BY <1>0
      <3> QED
        BY <3>1, <3>2, BelowAdded
    <2>2. CASE p \notin g.parents
      <3>1. solr'[p] = solr[p]
        BY <1>4, <1>7, <2>2
      <3> QED
        BY <2>2, <3>1
    <2> QED
      BY <2>1, <2>2
  <1>8. ASSUME NEW p \in ({o} \cup g.parents) \ crossed'
        PROVE  full.at = "idle" /\ \A j \in Indexers \ {i} : ~ Has(indexer[j], p)
    <2>1. g.parents \subseteq Objects
      BY <1>1 DEF IndexerTyped, IndexerType, GraphType
    <2>2. p \in Objects /\ p \notin others
      BY <1>2, <1>3, <1>8, <2>1
    <2>3. p \in Objects /\ p \notin HeldFull
      BY <2>2
    <2>4. ASSUME NEW j \in Indexers \ {i} PROVE p \notin Held(j)
      <3>1. Held(j) \in {Held(k) : k \in Indexers \ {i}}
        OBVIOUS
      <3>2. Held(j) \subseteq others
        BY <3>1
      <3> QED
        BY <2>2, <3>2
    <2> QED
      BY <2>3, <2>4 DEF Held, HeldFull, Has
  <1> HIDE DEF new, others, d, g
  <1>9. indexer'[i] = new /\ \A j \in Indexers \ {i} : indexer'[j] = indexer[j]
    BY <1>0, <1>3
  <1>10. \A p \in Objects : Due(p) => Due(p)'
    <2>1. \A j \in Indexers : indexer'[j].todo = indexer[j].todo
      BY <1>5, <1>9
    <2> QED
      BY <1>3, <2>1, DueKept
  <1>11. IdleKept'
    BY <1>5, <1>9 DEF IndexInv, IdleKept
  <1>12. ASSUME NEW p \in Objects \ crossed', IndexKept(p) PROVE IndexKept(p)'
    <2>1. SelfKept(p)'
      <3>1. CASE Due(p)
        BY <1>10, <3>1 DEF SelfKept
      <3>2. ASSUME NEW j \in Indexers, Has(indexer[j], p),
                   WillTell(indexer[j], row[p].name, Parents(p, xref))
            PROVE  SelfKept(p)'
        <4>1. CASE j /= i
          BY <1>3, <1>9, <3>2, <4>1 DEF SelfKept
        <4>2. CASE j = i
          <5>1. p = o
            BY <3>2, <4>2 DEF Has
          <5>2. Tells(solr'[p], row[p].name, Parents(p, xref))
            BY <1>1, <1>6, <3>2, <4>2, <5>1 DEF WillTell, d
          <5>3. full.at = "idle" /\ \A k \in Indexers : ~ Has(indexer'[k], p)
            BY <1>5, <1>8, <1>9, <1>12, <5>1
          <5>4. FullTells(full, p, row[p].name, Parents(p, xref))
            BY <5>3 DEF FullTells
          <5> QED
            BY <1>3, <5>2, <5>3, <5>4 DEF SelfKept, SelfWritten
        <4> QED
          BY <4>1, <4>2
      <3>3. CASE SelfWritten(p)
        <4>1. Tells(solr'[p], row[p].name, Parents(p, xref))
          <5>1. CASE p = o
            BY <1>1, <1>2, <1>6, <3>3, <5>1 DEF SelfWritten, WillTell, d
          <5>2. CASE p /= o
            BY <1>7, <3>3, <5>2 DEF SelfWritten
          <5> QED
            BY <5>1, <5>2
        <4>2. \A j \in Indexers : Has(indexer'[j], p) => WillTell(indexer'[j], row[p].name, Parents(p, xref))
          BY <1>5, <1>9, <3>3 DEF SelfWritten
        <4> QED
          BY <1>3, <3>3, <4>1, <4>2 DEF SelfWritten, SelfKept
      <3> QED
        BY <1>12, <3>1, <3>2, <3>3 DEF IndexKept, SelfKept
    <2>2. ASSUME NEW c \in Children(p, xref) PROVE ChildKept(p, c)'
      <3>0. c \in Objects /\ ChildKept(p, c) /\ p /= c
        <4>1. <<p, c>> \in Links
          BY <1>1, <2>2 DEF Children
        <4>2. <<p, c>>[1] /= <<p, c>>[2]
          BY <4>1, ConstantsAssumption
        <4> QED
          BY <1>12, <2>2, <4>2 DEF Children, IndexKept
      <3>1. CASE Due(c)
        BY <1>10, <3>0, <3>1 DEF ChildKept
      <3>2. ASSUME NEW j \in Indexers, Brings(indexer[j], p, c) PROVE ChildKept(p, c)'
        <4>1. CASE j /= i
          BY <1>9, <3>2, <4>1 DEF ChildKept
        <4>2. CASE j = i
          <5>1. c = o /\ p \in g.parents /\ c \in g.below
            BY <3>2, <4>2 DEF Brings, Has, g
          <5>2. c \in solr'[p].below
            BY <1>7, <3>0, <5>1
          <5>3. full.at = "idle"
            BY <1>8, <1>12, <5>1
          <5> QED
            BY <1>3, <5>2, <5>3 DEF ChildKept, ChildWritten, FullHasChild
        <4> QED
          BY <4>1, <4>2
      <3>3. CASE ChildWritten(p, c)
        <4>1. c \in solr'[p].below
          BY <1>6, <1>7, <3>3 DEF ChildWritten
        <4> QED
          BY <1>3, <3>3, <4>1 DEF ChildKept, ChildWritten
      <3> QED
        BY <3>0, <3>1, <3>2, <3>3 DEF ChildKept
    <2>3. UNCHANGED xref
      BY <1>3
    <2> QED
      BY <2>1, <2>2, <2>3 DEF IndexKept
  <1>13. crossed \subseteq crossed'
    BY <1>3
  <1> QED
    BY <1>3, <1>11, <1>12, <1>13 DEF IndexInv

LEMMA AddFailsIndex ==
    ASSUME TypeInv, IndexInv, NEW i \in Indexers, AddFails(i)
    PROVE  IndexInv'
  <1>1. indexer \in [Indexers -> IndexerType] /\ failures \in Nat
    BY ConstantsAssumption DEF TypeInv, IndexTyped, SolrTyped
  <1>2. failures' /= 0
    BY <1>1 DEF AddFails
  <1>3. IdleKept'
    BY <1>1, BetweenIs DEF AddFails, IndexInv, IdleKept
  <1> QED
    BY <1>2, <1>3 DEF IndexInv

(* The full index.                                                         *)
LEMMA FullIndexKept ==
    ASSUME TypeInv, IndexInv, FullIndex
    PROVE  IndexInv'
  <1>0. FullTyped /\ failures \in Nat /\ crossed \subseteq Objects
    BY ConstantsAssumption DEF TypeInv, IndexTyped, SolrTyped
  <1>1. UNCHANGED <<row, xref, events, objectIndexSet, indexer>>
    BY DEF FullIndex, StartFullIndex, MakeDocuments, AddAllDocuments, AddAllFails, dbVars
  <1>2. IdleKept'
    BY <1>1 DEF IndexInv, IdleKept
  <1>3. \A o \in Objects : Due(o) => Due(o)'
    BY <1>1, DueKept
  <1>4. ASSUME UNCHANGED <<solr, failures, crossed>>,
               \A o \in Objects :
                   /\ FullTells(full, o, row[o].name, Parents(o, xref))
                         => FullTells(full', o, row[o].name, Parents(o, xref))
                   /\ \A c \in Children(o, xref) :
                          FullHasChild(full, o, c) => FullHasChild(full', o, c)
        PROVE  IndexInv'
    <2>1. ASSUME NEW o \in Objects, IndexKept(o) PROVE IndexKept(o)'
      <3>1. SelfKept(o)'
        BY <1>1, <1>3, <1>4, <2>1 DEF IndexKept, SelfKept, SelfWritten
      <3>2. ASSUME NEW c \in Children(o, xref) PROVE ChildKept(o, c)'
        <4>1. c \in Objects /\ ChildKept(o, c)
          BY <2>1 DEF Children, IndexKept
        <4> QED
          BY <1>1, <1>3, <1>4, <4>1 DEF ChildKept, ChildWritten
      <3> QED
        BY <1>1, <3>1, <3>2 DEF IndexKept
    <2> QED
      BY <1>2, <1>4, <2>1 DEF IndexInv
  <1>5. CASE StartFullIndex
    <2>1. /\ full'.at = "graph" /\ full'.graph = FullGraph
          /\ UNCHANGED <<solr, failures, crossed>>
      BY <1>0, <1>5 DEF StartFullIndex, FullTyped, FullType
    <2>2. \A o \in Objects : /\ full'.graph[o].parents = Parents(o, xref)
                             /\ Children(o, xref) \subseteq full'.graph[o].below
      BY <2>1 DEF FullGraph
    <2> QED
      BY <1>4, <2>1, <2>2 DEF FullTells, FullHasChild
  <1>6. CASE MakeDocuments
    <2>1. /\ full.at = "graph" /\ full'.at = "docs"
          /\ full'.docs = [o \in Objects |-> Document(o, full.graph[o])]
          /\ UNCHANGED <<solr, failures, crossed>>
      BY <1>6 DEF MakeDocuments
    <2>2. \A o \in Objects : /\ Tells(full'.docs[o], row[o].name, full.graph[o].parents)
                             /\ full'.docs[o].below = full.graph[o].below
      BY <2>1, DocumentTells
    <2> QED
      BY <1>4, <2>1, <2>2 DEF FullTells, FullHasChild
  <1>7. CASE AddAllDocuments
    <2>1. /\ full.at = "docs" /\ solr' = full.docs /\ full'.at = "idle"
          /\ UNCHANGED failures
          /\ crossed' = crossed \cup UNION {Held(i) : i \in Indexers}
      BY <1>7 DEF AddAllDocuments, IdleFull
    <2>2. ASSUME NEW o \in Objects \ crossed', IndexKept(o) PROVE IndexKept(o)'
      <3>1. \A i \in Indexers : o \notin Held(i)
        BY <2>1, <2>2
      <3>2. \A i \in Indexers : ~ Has(indexer[i], o)
        BY <3>1 DEF Held, Has
      <3>3. \A i \in Indexers, c \in Objects : ~ Brings(indexer[i], o, c)
        BY <3>1 DEF Held, Brings, Has
      <3>4. SelfKept(o)'
        <4>1. CASE SelfWritten(o)
          <5>1. Tells(solr'[o], row[o].name, Parents(o, xref))
            BY <2>1, <4>1 DEF SelfWritten, FullTells
          <5>2. FullTells(full', o, row[o].name, Parents(o, xref))
            BY <2>1 DEF FullTells
          <5> QED
            BY <1>1, <3>2, <5>1, <5>2 DEF SelfKept, SelfWritten
        <4> QED
          BY <1>3, <2>2, <3>2, <4>1 DEF IndexKept, SelfKept
      <3>5. ASSUME NEW c \in Children(o, xref) PROVE ChildKept(o, c)'
        <4>1. c \in Objects /\ ChildKept(o, c)
          BY <2>2 DEF Children, IndexKept
        <4>2. CASE ChildWritten(o, c)
          <5>1. c \in solr'[o].below /\ FullHasChild(full', o, c)
            BY <2>1, <4>2 DEF ChildWritten, FullHasChild
          <5> QED
            BY <5>1 DEF ChildKept, ChildWritten
        <4> QED
          BY <1>3, <3>3, <4>1, <4>2 DEF ChildKept
      <3> QED
        BY <1>1, <3>4, <3>5 DEF IndexKept
    <2> QED
      BY <1>2, <2>1, <2>2 DEF IndexInv
  <1>8. CASE AddAllFails
    BY <1>0, <1>2, <1>8 DEF AddAllFails, IndexInv
  <1> QED
    BY <1>5, <1>6, <1>7, <1>8 DEF FullIndex

LEMMA NextIndex == TypeInv /\ IndexInv /\ [Next]_vars => IndexInv'
  <1> SUFFICES ASSUME TypeInv, IndexInv, [Next]_vars PROVE IndexInv'
    OBVIOUS
  <1>0. xref \subseteq Objects \X Objects
    BY ConstantsAssumption DEF TypeInv, DbTyped
  <1>1. ASSUME UNCHANGED <<dbVars, events, indexVars>> PROVE IndexInv'
    <2>1. UNCHANGED <<row, xref, events, objectIndexSet, indexer, full, solr, failures, crossed>>
      BY <1>1 DEF dbVars, indexVars
    <2>2. \A o \in Objects : Due(o) => Due(o)'
      BY <2>1, DueKept
    <2> QED
      BY <1>0, <2>1, <2>2, QuietIndex
  <1>2. ASSUME NEW o \in Objects,
               RetireObject(o) \/ UpdateRetired(o) \/ \E n \in Names : Update(o, n)
        PROVE  IndexInv'
    BY <1>2, ObjectIndex
  <1>3. ASSUME NEW l \in Links, CreateXref(l) PROVE IndexInv'
    BY <1>3, XrefIndex
  <1>4. ASSUME NEW l \in Lookups, StoreName(l) \/ \E o \in LookedUp : ReadName(l, o)
        PROVE  IndexInv'
    BY <1>1, <1>4 DEF StoreName, ReadName
  <1>5. ASSUME NEW i \in Indexers, IndexObjects(i) PROVE IndexInv'
    BY <1>5, TakeObjectsIndex, ComputeGraphIndex, HandleObjectIndex, AddDocumentsIndex,
       AddFailsIndex DEF IndexObjects
  <1>6. CASE UNCHANGED vars
    BY <1>1, <1>6 DEF vars
  <1> QED
    BY <1>2, <1>3, <1>4, <1>5, <1>6, EventsIndex, FullIndexKept DEF Next

(* When events have been handled and all indexing is done, the document of *)
(* an object has its name and parents, and the parents have it below       *)
(* (IndexSolr.indexObject, fullIndex), unless two indexings of it were     *)
(* under way at once or a request to Solr failed.                          *)
THEOREM IndexCurrentAlways == Spec => []IndexCurrent
  <1>1. TypeInv /\ IndexInv => IndexCurrent
    <2> SUFFICES ASSUME TypeInv, IndexInv, EventsHandled, objectIndexSet = {}, failures = 0,
                        \A i \in Indexers : indexer[i].at = "idle",
                        NEW o \in Objects, o \notin crossed, full.at = "idle"
                 PROVE  /\ solr[o].name = row[o].name
                        /\ {a[1] : a \in solr[o].above} = Parents(o, xref)
                        /\ Children(o, xref) \subseteq solr[o].below
      BY DEF IndexCurrent
    <2>1. \A p \in Objects : ~ Due(p)
      BY DEF Due, EventsHandled, IndexInv, IdleKept
    <2>2. \A i \in Indexers, p \in Objects : ~ Has(indexer[i], p)
      BY DEF Has
    <2>3. IndexKept(o)
      BY DEF IndexInv
    <2>4. Tells(solr[o], row[o].name, Parents(o, xref))
      BY <2>1, <2>2, <2>3 DEF IndexKept, SelfKept, SelfWritten
    <2>5. \A c \in Children(o, xref) : c \in solr[o].below
      <3> SUFFICES ASSUME NEW c \in Children(o, xref) PROVE c \in solr[o].below
        OBVIOUS
      <3>1. c \in Objects /\ ChildKept(o, c)
        BY <2>3 DEF Children, IndexKept
      <3> QED
        BY <2>1, <2>2, <3>1 DEF ChildKept, ChildWritten, Brings
    <2> QED
      BY <2>4, <2>5 DEF Tells
  <1> QED
    BY <1>1, InitType, NextType, InitIndex, NextIndex, PTL DEF Spec

=============================================================================
